---------------------------- MODULE Spec2Model ----------------------------
(***************************************************************************)
(* A model of the batched-rendering core: the RenderNodeManager (node      *)
(* registry, current-batch state machine, texture-unit tuning), the        *)
(* BatchHandlerPointLight batch accumulator and its element indices, the   *)
(* submit step (TilemapLayerWebGLRenderer, SubmitterTile) and the Camera   *)
(* node's pass over a list of children.                                    *)
(*                                                                         *)
(* Handlers, drawing contexts and node instances are numbered from 1;      *)
(* Null (0) stands for JavaScript's null/undefined.                        *)
(***************************************************************************)
EXTENDS Integers, Sequences, FiniteSets, TLC

\* ------------------------------------------------------------------ bounds

NumHandlers == 2
NumContexts == 2
MaxInstancesPerBatch == 3
MaxTexturesBound == 8
MaxNodeIds == 3
MaxElementInstances == 60
MaxFrameOps == 5
MaxChildren == 3
MaxRunDepth == 3
MaxDebugNodes == 4
MaxListeners == 2

\* ------------------------------------------------------- program constants

VerticesPerInstance == 4
IndicesPerInstance == 6
FloatsPerVertex == 10
BytesPerFloat == 4
BytesPerIndex == 2
Uint16Limit == 65536

Null == 0
Handlers == 1..NumHandlers
Contexts == 1..NumContexts

VARIABLES
    instancesPerBatch,          \* handler -> capacity in instances
    instanceCount,              \* handler -> fill level
    vertexBuffer,               \* handler -> the instances in slots 0..instanceCount-1
    currentBatchNode,           \* manager.currentBatchNode
    currentBatchDrawingContext, \* manager.currentBatchDrawingContext
    lastOp,                     \* the last batch-machine call made from outside
                                \* (again: a run that follows a run of the same node)
    trace,                      \* what that call did, in program order
    streak,                     \* consecutive batch() calls on one handler since it was empty
    nodes,                      \* manager._nodes: name -> instance or Null
    nodeConstructors,           \* manager._nodeConstructors: name -> constructor or Null
    nextId,                     \* identity of the next object created
    debug,                      \* manager.debug
    nodeDebug,                  \* identities of the nodes put in debug mode
    constructed,                \* name -> number of times getNode constructed it
    result,                     \* the last registry call and what it returned
    maxTextures,                \* renderer.maxTextures
    maxParallelTextureUnits,    \* manager.maxParallelTextureUnits
    emitted,                    \* events emitted by the last setter call
    lastValue,                  \* the argument of the last setter call
    elementInstances,           \* the argument of _generateElementIndices
    elementBytes,               \* byte length of the buffer it returned
    frameLog,                   \* the requests made of the batch machine this frame
    drawLog,                    \* the drawElements calls made this frame
    submitArgs,                 \* the arguments of the submit-level call under way
    calls,                      \* the calls that call made on other nodes, in order
    cameraArgs,                 \* the arguments of the camera pass
    cameraDirty,                \* camera.dirty
    debugGraph,                 \* the node objects reachable from manager.debugGraph,
                                \* in order of creation; the first is debugGraph itself
    currentDebugNode,           \* manager.currentDebugNode: an index into debugGraph, or Null
    postRenderOnce,             \* once-listeners setDebug has left on the renderer's POST_RENDER
    runStack,                   \* the node runs in progress, outermost first
    debugResult                 \* what the last call returned, if it was debugToString

batchVars == <<instancesPerBatch, instanceCount, vertexBuffer, currentBatchNode,
               currentBatchDrawingContext, lastOp, trace, streak>>
registryVars == <<nodes, nodeConstructors, nextId, debug, nodeDebug, constructed, result>>
textureVars == <<maxTextures, maxParallelTextureUnits, emitted, lastValue>>
elementVars == <<elementInstances, elementBytes>>
frameVars == <<frameLog, drawLog>>
submitVars == <<submitArgs, calls>>
cameraVars == <<cameraArgs, cameraDirty>>
debugVars == <<debugGraph, currentDebugNode, postRenderOnce, runStack, debugResult>>
vars == <<batchVars, registryVars, textureVars, elementVars, frameVars, submitVars,
          cameraVars, debugVars>>
outsideBatch == <<registryVars, textureVars, elementVars, frameVars, submitVars,
                  cameraVars, debugVars>>
outsideRegistry == <<batchVars, textureVars, elementVars, frameVars, submitVars,
                     cameraVars, debugVars>>
outsideTexture == <<batchVars, registryVars, elementVars, frameVars, submitVars,
                    cameraVars, debugVars>>
outsideElements == <<batchVars, registryVars, textureVars, frameVars, submitVars,
                     cameraVars, debugVars>>
outsideFrame == <<registryVars, textureVars, elementVars, submitVars, cameraVars, debugVars>>
outsideSubmit == <<batchVars, registryVars, textureVars, elementVars, frameVars,
                   cameraVars, debugVars>>
outsideCamera == <<registryVars, textureVars, elementVars, frameVars, submitVars, debugVars>>
outsideDebug == <<batchVars, textureVars, elementVars, frameVars, submitVars,
                  cameraVars>>

\* ------------------------------------------------- BatchHandlerPointLight

floatsPerInstance == FloatsPerVertex * VerticesPerInstance
bytesPerInstance == floatsPerInstance * BytesPerFloat

\* The batch machine's state as one value, threaded through the calls.
BatchState ==
    [instanceCount |-> instanceCount,
     vertexBuffer |-> vertexBuffer,
     currentBatchNode |-> currentBatchNode,
     currentBatchDrawingContext |-> currentBatchDrawingContext,
     trace |-> <<>>]

\* One call or assignment made during an operation. n is the instance count seen
\* (run, onRunBegin, onRunEnd), the slot written (write), the bytes uploaded
\* (bufferUpdate) or the indices drawn (drawElements); data is the instances drawn
\* (drawElements) or the current batch node at the time of the write (write).
Event(ev, node, ctx, n, data) ==
    [ev |-> ev, node |-> node, ctx |-> ctx, n |-> n, data |-> data]

Emit(st, e) == [st EXCEPT !.trace = Append(@, e)]

onRunBegin(st, h, ctx) ==
    Emit(st, Event("onRunBegin", h, ctx, st.instanceCount[h], <<>>))

\* run without its early return on an empty batch.
runAlways(st, h, ctx) ==
    LET called == Emit(st, Event("run", h, ctx, st.instanceCount[h], <<>>))
        count == st.instanceCount[h]
        s1 == onRunBegin(called, h, ctx)
        s2 == Emit(s1, Event("bufferUpdate", h, ctx,
                             s1.instanceCount[h] * bytesPerInstance, <<>>))
        s3 == Emit(s2, Event("drawElements", h, ctx,
                             count * IndicesPerInstance,
                             SubSeq(s2.vertexBuffer[h], 1, count)))
        s4 == [s3 EXCEPT !.instanceCount[h] = 0, !.vertexBuffer[h] = <<>>]
    IN  Emit(s4, Event("onRunEnd", h, ctx, s4.instanceCount[h], <<>>))

\* run resetting the count before it uploads and draws.
runResetFirst(st, h, ctx) ==
    LET called == Emit(st, Event("run", h, ctx, st.instanceCount[h], <<>>))
        count == st.instanceCount[h]
    IN  IF count = 0 THEN called
        ELSE LET s1 == onRunBegin(called, h, ctx)
                 s2 == [s1 EXCEPT !.instanceCount[h] = 0]
                 s3 == Emit(s2, Event("bufferUpdate", h, ctx,
                                      s2.instanceCount[h] * bytesPerInstance, <<>>))
                 s4 == Emit(s3, Event("drawElements", h, ctx,
                                      s3.instanceCount[h] * IndicesPerInstance,
                                      SubSeq(s3.vertexBuffer[h], 1, s3.instanceCount[h])))
                 s5 == [s4 EXCEPT !.vertexBuffer[h] = <<>>]
             IN  Emit(s5, Event("onRunEnd", h, ctx, s5.instanceCount[h], <<>>))

\* run: draw then empty the current batch.
run(st, h, ctx) ==
    LET called == Emit(st, Event("run", h, ctx, st.instanceCount[h], <<>>))
        count == st.instanceCount[h]
    IN  IF count = 0 THEN called
        ELSE LET s1 == onRunBegin(called, h, ctx)
                 s2 == Emit(s1, Event("bufferUpdate", h, ctx,
                                      s1.instanceCount[h] * bytesPerInstance, <<>>))
                 s3 == Emit(s2, Event("drawElements", h, ctx,
                                      count * IndicesPerInstance,
                                      SubSeq(s2.vertexBuffer[h], 1, count)))
                 s4 == [s3 EXCEPT !.instanceCount[h] = 0, !.vertexBuffer[h] = <<>>]
             IN  Emit(s4, Event("onRunEnd", h, ctx, s4.instanceCount[h], <<>>))

\* ------------------------------------------ RenderNodeManager: batch state

\* setCurrentBatchNode installing the new node before it completes the old one.
setCurrentBatchNodeAssignFirst(st, node, drawingContext) ==
    IF st.currentBatchNode # node
    THEN LET prev == st.currentBatchNode
             prevCtx == st.currentBatchDrawingContext
             s1 == Emit([st EXCEPT !.currentBatchNode = node,
                                   !.currentBatchDrawingContext =
                                       IF node # Null THEN drawingContext ELSE Null],
                        Event("setCurrent", node,
                              IF node # Null THEN drawingContext ELSE Null, 0, <<>>))
         IN  IF prev # Null THEN run(s1, prev, prevCtx) ELSE s1
    ELSE st

\* setCurrentBatchNode that does not complete the batch in progress.
setCurrentBatchNodeNoFlush(st, node, drawingContext) ==
    IF st.currentBatchNode # node
    THEN Emit([st EXCEPT !.currentBatchNode = node,
                         !.currentBatchDrawingContext =
                             IF node # Null THEN drawingContext ELSE Null],
              Event("setCurrent", node,
                    IF node # Null THEN drawingContext ELSE Null, 0, <<>>))
    ELSE st

\* setCurrentBatchNode completing the old batch with the context of the new request.
setCurrentBatchNodeNewContext(st, node, drawingContext) ==
    IF st.currentBatchNode # node
    THEN LET s1 == IF st.currentBatchNode # Null
                   THEN run(st, st.currentBatchNode, drawingContext)
                   ELSE st
             s2 == [s1 EXCEPT !.currentBatchNode = node]
             s3 == [s2 EXCEPT !.currentBatchDrawingContext =
                                  IF node # Null THEN drawingContext ELSE Null]
         IN  Emit(s3, Event("setCurrent", s3.currentBatchNode,
                            s3.currentBatchDrawingContext, 0, <<>>))
    ELSE st

setCurrentBatchNode(st, node, drawingContext) ==
    IF st.currentBatchNode # node
    THEN LET s1 == IF st.currentBatchNode # Null
                   THEN run(st, st.currentBatchNode, st.currentBatchDrawingContext)
                   ELSE st
             s2 == [s1 EXCEPT !.currentBatchNode = node]
             s3 == [s2 EXCEPT !.currentBatchDrawingContext =
                                  IF node # Null THEN drawingContext ELSE Null]
         IN  Emit(s3, Event("setCurrent", s3.currentBatchNode,
                            s3.currentBatchDrawingContext, 0, <<>>))
    ELSE st

\* startStandAloneRender dropping the current batch without completing it.
startStandAloneRenderNoFlush(st) == setCurrentBatchNodeNoFlush(st, Null, Null)

startStandAloneRender(st) == setCurrentBatchNode(st, Null, Null)

\* ------------------------------------------- BatchHandlerPointLight.batch

\* batch flushing only once the count has passed the capacity.
batchFlushWhenOver(st, h, drawingContext) ==
    LET s1 == IF st.instanceCount[h] = 0
              THEN setCurrentBatchNode(st, h, drawingContext)
              ELSE st
        slot == s1.instanceCount[h]
        s2 == Emit([s1 EXCEPT !.vertexBuffer[h] =
                                  Append(SubSeq(@, 1, slot), drawingContext)],
                   Event("write", h, drawingContext, slot, <<s1.currentBatchNode>>))
        s3 == [s2 EXCEPT !.instanceCount[h] = @ + 1]
    IN  IF s3.instanceCount[h] > instancesPerBatch[h]
        THEN run(s3, h, drawingContext)
        ELSE s3

\* batch flushing one instance before the capacity.
batchFlushEarly(st, h, drawingContext) ==
    LET s1 == IF st.instanceCount[h] = 0
              THEN setCurrentBatchNode(st, h, drawingContext)
              ELSE st
        slot == s1.instanceCount[h]
        s2 == Emit([s1 EXCEPT !.vertexBuffer[h] =
                                  Append(SubSeq(@, 1, slot), drawingContext)],
                   Event("write", h, drawingContext, slot, <<s1.currentBatchNode>>))
        s3 == [s2 EXCEPT !.instanceCount[h] = @ + 1]
    IN  IF s3.instanceCount[h] >= instancesPerBatch[h] - 1
        THEN run(s3, h, drawingContext)
        ELSE s3

\* batch that never registers itself with the manager.
batchNoRegister(st, h, drawingContext) ==
    LET s1 == st
        slot == s1.instanceCount[h]
        s2 == Emit([s1 EXCEPT !.vertexBuffer[h] =
                                  Append(SubSeq(@, 1, slot), drawingContext)],
                   Event("write", h, drawingContext, slot, <<s1.currentBatchNode>>))
        s3 == [s2 EXCEPT !.instanceCount[h] = @ + 1]
    IN  IF s3.instanceCount[h] = instancesPerBatch[h]
        THEN run(s3, h, drawingContext)
        ELSE s3

\* batch: add one instance; the instance is modelled by the drawing context it
\* was batched under (its alpha is multiplied by that context's camera alpha).
batch(st, h, drawingContext) ==
    LET s1 == IF st.instanceCount[h] = 0
              THEN setCurrentBatchNode(st, h, drawingContext)
              ELSE st
        slot == s1.instanceCount[h]
        s2 == Emit([s1 EXCEPT !.vertexBuffer[h] =
                                  Append(SubSeq(@, 1, slot), drawingContext)],
                   Event("write", h, drawingContext, slot, <<s1.currentBatchNode>>))
        s3 == [s2 EXCEPT !.instanceCount[h] = @ + 1]
    IN  IF s3.instanceCount[h] = instancesPerBatch[h]
        THEN run(s3, h, drawingContext)
        ELSE s3

\* ------------------------------------------------------------- batch actions

NoOp == [op |-> "none", node |-> Null, ctx |-> Null, again |-> FALSE]
NoStreak == [node |-> Null, calls |-> 0, draws |-> 0]

\* The positions in a trace of the events of one kind.
At(tr, ev) == {i \in 1..Len(tr) : tr[i].ev = ev}

Draws(tr, h) ==
    Cardinality({i \in 1..Len(tr) : tr[i].ev = "drawElements" /\ tr[i].node = h})

Install(st) ==
    /\ instanceCount' = st.instanceCount
    /\ vertexBuffer' = st.vertexBuffer
    /\ currentBatchNode' = st.currentBatchNode
    /\ currentBatchDrawingContext' = st.currentBatchDrawingContext
    /\ trace' = st.trace
    /\ UNCHANGED instancesPerBatch

BatchCall(h, c) ==
    LET st == batch(BatchState, h, c)
    IN  /\ Install(st)
        /\ lastOp' = [op |-> "batch", node |-> h, ctx |-> c, again |-> FALSE]
        /\ streak' = IF instanceCount[h] = 0
                     THEN [node |-> h, calls |-> 1, draws |-> Draws(st.trace, h)]
                     ELSE IF streak.node = h
                     THEN [streak EXCEPT !.calls = @ + 1,
                                         !.draws = @ + Draws(st.trace, h)]
                     ELSE NoStreak

Batch(h, c) == BatchCall(h, c) /\ UNCHANGED outsideBatch

Run(h, c) ==
    /\ Install(run(BatchState, h, c))
    /\ lastOp' = [op |-> "run", node |-> h, ctx |-> c,
                  again |-> lastOp.op = "run" /\ lastOp.node = h]
    /\ streak' = NoStreak
    /\ UNCHANGED outsideBatch

SetCurrentBatchNode(node, c) ==
    /\ Install(setCurrentBatchNode(BatchState, node, c))
    /\ lastOp' = [op |-> "setCurrentBatchNode", node |-> node, ctx |-> c, again |-> FALSE]
    /\ streak' = NoStreak
    /\ UNCHANGED outsideBatch

StartStandAloneRenderCall ==
    /\ Install(startStandAloneRender(BatchState))
    /\ lastOp' = [op |-> "startStandAloneRender", node |-> Null, ctx |-> Null,
                  again |-> FALSE]
    /\ streak' = NoStreak

StartStandAloneRender == StartStandAloneRenderCall /\ UNCHANGED outsideBatch

\* ------------------------------------------------------------ one frame

\* A frame as the batch machine sees it: objects drawn through two handlers, under
\* either of two drawing contexts, and objects that draw on their own and so ask
\* for a stand-alone render first. Every drawElements call is logged.
FrameHandlers == {h \in Handlers : h <= 2}
FrameContexts == {c \in Contexts : c <= 2}

DrawCalls(tr) == SelectSeq(tr, LAMBDA e : e.ev = "drawElements")

FrameBatch(h, c) ==
    /\ Len(frameLog) < MaxFrameOps
    /\ BatchCall(h, c)
    /\ frameLog' = Append(frameLog, [op |-> "batch", node |-> h, ctx |-> c])
    /\ drawLog' = drawLog \o DrawCalls(trace')
    /\ UNCHANGED outsideFrame

FrameStandAloneRender ==
    /\ Len(frameLog) < MaxFrameOps
    /\ StartStandAloneRenderCall
    /\ frameLog' = Append(frameLog, [op |-> "startStandAloneRender", node |-> Null,
                                     ctx |-> Null])
    /\ drawLog' = drawLog \o DrawCalls(trace')
    /\ UNCHANGED outsideFrame

InitFrame ==
    /\ frameLog = <<>>
    /\ drawLog = <<>>

\* ---------------------------------------------------------------- initial

\* Every handler starts empty, with a capacity of at least one instance.
InitHandlers ==
    /\ instancesPerBatch \in [Handlers -> 1..MaxInstancesPerBatch]
    \* handlers are interchangeable: number them by decreasing capacity
    /\ \A g, h \in Handlers : g < h => instancesPerBatch[g] >= instancesPerBatch[h]
    /\ instanceCount = [h \in Handlers |-> 0]
    /\ vertexBuffer = [h \in Handlers |-> <<>>]

\* Handlers that all have the renderer's batch size.
InitSameCapacity(capacities) ==
    /\ instancesPerBatch \in {[h \in Handlers |-> n] : n \in capacities}
    /\ instanceCount = [h \in Handlers |-> 0]
    /\ vertexBuffer = [h \in Handlers |-> <<>>]

InitCurrentBatch ==
    /\ currentBatchNode = Null
    /\ currentBatchDrawingContext = Null
    /\ lastOp = NoOp
    /\ trace = <<>>
    /\ streak = NoStreak

InitBatch ==
    /\ InitHandlers
    /\ currentBatchNode = Null
    /\ currentBatchDrawingContext = Null
    /\ lastOp = NoOp
    /\ trace = <<>>
    /\ streak = NoStreak

\* --------------------------------------------- RenderNodeManager: registry

BuiltInNames == {"Camera", "BatchHandlerPointLight"}
CustomNames == {"custom1", "custom2"}
Names == BuiltInNames \cup CustomNames
CustomConstructors == {"CustomNode"}

\* JavaScript's "no entry": a falsy _nodes[name] or _nodeConstructors[name].
NoNode == [id |-> Null, class |-> "none"]
NoCtor == "none"

RegistryState ==
    [nodes |-> nodes,
     nodeConstructors |-> nodeConstructors,
     nextId |-> nextId,
     nodeDebug |-> nodeDebug,
     constructed |-> constructed,
     threw |-> FALSE]

\* addNode that never puts the node in debug mode.
addNodeNoDebug(st, name, node) ==
    IF st.nodes[name] # NoNode
    THEN [st EXCEPT !.threw = TRUE]
    ELSE [st EXCEPT !.nodes[name] = node]

addNode(st, name, node) ==
    IF st.nodes[name] # NoNode
    THEN [st EXCEPT !.threw = TRUE]
    ELSE LET s1 == [st EXCEPT !.nodes[name] = node]
         IN  IF debug THEN [s1 EXCEPT !.nodeDebug = @ \cup {node.id}] ELSE s1

addNodeConstructor(st, name, constructor) ==
    IF st.nodeConstructors[name] # NoCtor
    THEN [st EXCEPT !.threw = TRUE]
    ELSE [st EXCEPT !.nodeConstructors[name] = constructor]

\* getNode that does not look for a stored instance first.
getNodeAlwaysConstruct(st, name) ==
    IF st.nodeConstructors[name] # NoCtor
    THEN LET node == [id |-> st.nextId, class |-> st.nodeConstructors[name]]
             s1 == [st EXCEPT !.nextId = @ + 1, !.constructed[name] = @ + 1]
             s2 == addNode(s1, name, node)
         IN  [st |-> s2, ret |-> IF s2.threw THEN NoNode ELSE node]
    ELSE [st |-> st, ret |-> st.nodes[name]]

\* getNode returns the state it leaves and the value it returns.
getNode(st, name) ==
    IF st.nodes[name] # NoNode
    THEN [st |-> st, ret |-> st.nodes[name]]
    ELSE IF st.nodeConstructors[name] # NoCtor
    THEN LET node == [id |-> st.nextId, class |-> st.nodeConstructors[name]]
             s1 == [st EXCEPT !.nextId = @ + 1, !.constructed[name] = @ + 1]
             s2 == addNode(s1, name, node)
         IN  [st |-> s2, ret |-> IF s2.threw THEN NoNode ELSE node]
    ELSE [st |-> st, ret |-> NoNode]

\* hasNode that ignores its `constructed` argument.
hasNodeIgnoringFlag(st, name, mustBeConstructed) ==
    st.nodes[name] # NoNode \/ st.nodeConstructors[name] # NoCtor

hasNode(st, name, mustBeConstructed) ==
    st.nodes[name] # NoNode
        \/ (~mustBeConstructed /\ st.nodeConstructors[name] # NoCtor)

\* ---------------------------------------------------------- registry actions

NoResult == [op |-> "none", name |-> "", ret |-> NoNode, bool |-> FALSE, threw |-> FALSE]

InstallRegistry(st) ==
    /\ nodes' = st.nodes
    /\ nodeConstructors' = st.nodeConstructors
    /\ nextId' = st.nextId
    /\ nodeDebug' = st.nodeDebug
    /\ constructed' = st.constructed
    /\ UNCHANGED debug

\* The caller hands over a node it has just created.
AddNode(name) ==
    /\ nextId <= MaxNodeIds
    /\ LET node == [id |-> nextId, class |-> "CustomNode"]
           st == addNode([RegistryState EXCEPT !.nextId = @ + 1], name, node)
       IN  /\ InstallRegistry(st)
           /\ result' = [op |-> "addNode", name |-> name, ret |-> node,
                         bool |-> FALSE, threw |-> st.threw]
    /\ UNCHANGED outsideRegistry

AddNodeConstructor(name, constructor) ==
    /\ LET st == addNodeConstructor(RegistryState, name, constructor)
       IN  /\ InstallRegistry(st)
           /\ result' = [op |-> "addNodeConstructor", name |-> name, ret |-> NoNode,
                         bool |-> FALSE, threw |-> st.threw]
    /\ UNCHANGED outsideRegistry

GetNode(name) ==
    /\ (nodes[name] = NoNode /\ nodeConstructors[name] # NoCtor) => nextId <= MaxNodeIds
    /\ LET got == getNode(RegistryState, name)
       IN  /\ InstallRegistry(got.st)
           /\ result' = [op |-> "getNode", name |-> name, ret |-> got.ret,
                         bool |-> FALSE, threw |-> got.st.threw]
    /\ UNCHANGED outsideRegistry

HasNode(name, mustBeConstructed) ==
    /\ result' = [op |-> IF mustBeConstructed THEN "hasNodeStrict" ELSE "hasNode",
                  name |-> name, ret |-> NoNode,
                  bool |-> hasNode(RegistryState, name, mustBeConstructed),
                  threw |-> FALSE]
    /\ UNCHANGED <<nodes, nodeConstructors, nextId, debug, nodeDebug, constructed>>
    /\ UNCHANGED outsideRegistry

InitRegistry ==
    /\ nodes = [n \in Names |-> NoNode]
    /\ nodeConstructors = [n \in Names |-> IF n \in BuiltInNames THEN n ELSE NoCtor]
    /\ nextId = 1
    /\ debug = FALSE
    /\ nodeDebug = {}
    /\ constructed = [n \in Names |-> 0]
    /\ result = NoResult

\* --------------------------------------- RenderNodeManager: debug recorder

RootName == "[Render Tree Root]"

\* The names under which the nodes that run are stored.
DebugNames == {"Camera", "custom1"}

DebugState ==
    [debug |-> debug,
     nodeDebug |-> nodeDebug,
     debugGraph |-> debugGraph,
     currentDebugNode |-> currentDebugNode,
     postRenderOnce |-> postRenderOnce,
     threw |-> FALSE]

\* The identities of the nodes in manager._nodes.
StoredIds == {nodes[n].id : n \in {m \in Names : nodes[m] # NoNode}}

\* pushDebug that links the new node but leaves currentDebugNode where it was.
pushDebugStayOnParent(st, name) ==
    IF ~st.debug THEN st
    ELSE LET node == [name |-> name, children |-> <<>>, parent |-> st.currentDebugNode]
             id == Len(st.debugGraph) + 1
         IN  IF st.debugGraph # <<>>
             THEN IF st.currentDebugNode = Null
                  THEN [st EXCEPT !.threw = TRUE]
                  ELSE [st EXCEPT !.debugGraph =
                            Append([@ EXCEPT ![st.currentDebugNode].children = Append(@, id)],
                                   node)]
             ELSE [st EXCEPT !.debugGraph = <<node>>, !.currentDebugNode = id]

\* pushDebug that records whether debug is enabled or not.
pushDebugWhenDisabled(st, name) ==
    LET node == [name |-> name, children |-> <<>>, parent |-> st.currentDebugNode]
        id == Len(st.debugGraph) + 1
    IN  IF st.debugGraph # <<>>
        THEN IF st.currentDebugNode = Null
             THEN [st EXCEPT !.threw = TRUE]
             ELSE [st EXCEPT !.debugGraph =
                       Append([@ EXCEPT ![st.currentDebugNode].children = Append(@, id)],
                              node),
                             !.currentDebugNode = id]
        ELSE [st EXCEPT !.debugGraph = <<node>>, !.currentDebugNode = id]

\* pushDebug: a node object is its index in debugGraph; reading .children of a
\* null currentDebugNode throws before anything is changed.
pushDebug(st, name) ==
    IF ~st.debug THEN st
    ELSE LET node == [name |-> name, children |-> <<>>, parent |-> st.currentDebugNode]
             id == Len(st.debugGraph) + 1
         IN  IF st.debugGraph # <<>>
             THEN IF st.currentDebugNode = Null
                  THEN [st EXCEPT !.threw = TRUE]
                  ELSE [st EXCEPT !.debugGraph =
                            Append([@ EXCEPT ![st.currentDebugNode].children = Append(@, id)],
                                   node),
                                  !.currentDebugNode = id]
             ELSE [st EXCEPT !.debugGraph = <<node>>, !.currentDebugNode = id]

\* popDebug: reading .parent of a null currentDebugNode throws.
popDebug(st) ==
    IF ~st.debug THEN st
    ELSE IF st.currentDebugNode = Null
    THEN [st EXCEPT !.threw = TRUE]
    ELSE IF st.debugGraph[st.currentDebugNode].parent # Null
    THEN [st EXCEPT !.currentDebugNode = st.debugGraph[st.currentDebugNode].parent]
    ELSE [st EXCEPT !.currentDebugNode = Null]

\* setDebug that keeps the graph recorded before.
setDebugKeepGraph(st, value) ==
    LET s1 == [st EXCEPT !.debug = value,
                         !.nodeDebug = IF value THEN @ \cup StoredIds ELSE @ \ StoredIds]
    IN  IF value
        THEN LET s3 == pushDebug(s1, RootName)
             IN  [s3 EXCEPT !.postRenderOnce = @ + 1]
        ELSE s1

\* setDebug: every stored node's setDebug(value); when enabling, a fresh graph
\* holding the synthetic root and one more once-listener on POST_RENDER.
setDebug(st, value) ==
    LET s1 == [st EXCEPT !.debug = value,
                         !.nodeDebug = IF value THEN @ \cup StoredIds ELSE @ \ StoredIds]
    IN  IF value
        THEN LET s2 == [s1 EXCEPT !.debugGraph = <<>>, !.currentDebugNode = Null]
                 s3 == pushDebug(s2, RootName)
             IN  [s3 EXCEPT !.postRenderOnce = @ + 1]
        ELSE s1

\* The renderer emitting POST_RENDER: each once-listener is removed and called.
RECURSIVE emitPostRender(_)
emitPostRender(st) ==
    IF st.postRenderOnce = 0 THEN st
    ELSE emitPostRender(setDebug([st EXCEPT !.postRenderOnce = @ - 1], FALSE))

\* indentString giving one space per level.
RECURSIVE indentStringOneSpace(_)
indentStringOneSpace(indent) ==
    IF indent = 0 THEN "" ELSE " " \o indentStringOneSpace(indent - 1)

\* '  '.repeat(indent)
RECURSIVE indentString(_)
indentString(indent) ==
    IF indent = 0 THEN "" ELSE "  " \o indentString(indent - 1)

\* formatNode, and its loop over node.children from index i on.
RECURSIVE formatNode(_, _, _)
RECURSIVE formatChildren(_, _, _, _, _)
formatChildren(graph, node, i, indent, str) ==
    IF i > Len(graph[node].children) THEN str
    ELSE formatChildren(graph, node, i + 1, indent,
                        str \o formatNode(graph, graph[node].children[i], indent + 1))

formatNode(graph, node, indent) ==
    formatChildren(graph, node, 1, indent,
                   indentString(indent) \o graph[node].name \o "\n")

\* debugToString: formatNode(null, 0) throws on reading .name.
debugToString(st) ==
    IF st.debugGraph = <<>>
    THEN [output |-> "", threw |-> TRUE]
    ELSE [output |-> formatNode(st.debugGraph, 1, 0), threw |-> FALSE]

\* --------------------------------------------------- debug recorder actions

NoDebugResult == [op |-> "none", output |-> "", threw |-> FALSE]

InstallDebug(st) ==
    /\ debug' = st.debug
    /\ nodeDebug' = st.nodeDebug
    /\ debugGraph' = st.debugGraph
    /\ currentDebugNode' = st.currentDebugNode
    /\ postRenderOnce' = st.postRenderOnce
    /\ UNCHANGED <<nodes, nodeConstructors, nextId, constructed, result>>
    /\ UNCHANGED outsideDebug

\* What is kept of a run entered through the debug wrapper: the node its
\* pushDebug created. A setDebug call during the run makes it stale: its node
\* belongs to a recording that was cut short.
Wrapped(node) == [pushed |-> node, stale |-> FALSE]
StaleRun == [pushed |-> Null, stale |-> TRUE]
Stale(stack) == [k \in 1..Len(stack) |-> StaleRun]

SetDebug(value) ==
    /\ value => postRenderOnce < MaxListeners
    /\ InstallDebug(setDebug(DebugState, value))
    /\ runStack' = Stale(runStack)
    /\ debugResult' = NoDebugResult

\* The renderer's POST_RENDER, emitted between frames.
PostRender ==
    /\ runStack = <<>>
    /\ InstallDebug(emitPostRender(DebugState))
    /\ UNCHANGED runStack
    /\ debugResult' = NoDebugResult

\* The run of a stored node that is in debug mode is entered: its run is the
\* wrapper, which calls pushDebug(name) first. (The run of a node that is not
\* in debug mode touches nothing of the recorder.)
RunBegin(name) ==
    /\ nodes[name] # NoNode
    /\ nodes[name].id \in nodeDebug
    /\ Len(runStack) < MaxRunDepth
    /\ Len(debugGraph) < MaxDebugNodes
    /\ LET st == pushDebug(DebugState, name)
       IN  /\ InstallDebug(st)
           /\ runStack' = IF st.threw THEN runStack
                          ELSE Append(runStack, Wrapped(st.currentDebugNode))
    /\ debugResult' = NoDebugResult

\* The innermost of those runs returns: the wrapper calls popDebug last.
RunEnd ==
    /\ runStack # <<>>
    /\ InstallDebug(popDebug(DebugState))
    /\ runStack' = SubSeq(runStack, 1, Len(runStack) - 1)
    /\ debugResult' = NoDebugResult

\* pushDebug and popDebug called directly while debug is disabled.
PushDebugDisabled(name) ==
    /\ ~debug
    /\ InstallDebug(pushDebug(DebugState, name))
    /\ UNCHANGED runStack
    /\ debugResult' = NoDebugResult

PopDebugDisabled ==
    /\ ~debug
    /\ InstallDebug(popDebug(DebugState))
    /\ UNCHANGED runStack
    /\ debugResult' = NoDebugResult

DebugToString ==
    /\ LET dump == debugToString(DebugState)
       IN  debugResult' = [op |-> "debugToString",
                           output |-> dump.output, threw |-> dump.threw]
    /\ UNCHANGED <<debugGraph, currentDebugNode, postRenderOnce, runStack>>
    /\ UNCHANGED registryVars
    /\ UNCHANGED outsideDebug

InitDebug ==
    /\ debugGraph = <<>>
    /\ currentDebugNode = Null
    /\ postRenderOnce = 0
    /\ runStack = <<>>
    /\ debugResult = NoDebugResult

\* ------------------------------------ RenderNodeManager: texture-unit tuning

\* An omitted argument, and the not-a-number it converts to.
Undefined == 0 - 1000
NaN == 0 - 1001

ToNumber(v) == IF v = Undefined THEN NaN ELSE v

MathMin(a, b) ==
    LET x == ToNumber(a)
        y == ToNumber(b)
    IN  IF x = NaN \/ y = NaN THEN NaN ELSE IF x < y THEN x ELSE y

MathMax(a, b) ==
    LET x == ToNumber(a)
        y == ToNumber(b)
    IN  IF x = NaN \/ y = NaN THEN NaN ELSE IF x > y THEN x ELSE y

\* The clamp without its lower bound.
clampNoLowerBound(value) == MathMin(value, maxTextures)

\* The value setMaxParallelTextureUnits stores.
clamp(value) == MathMax(1, MathMin(value, maxTextures))

SetMaxParallelTextureUnits(value) ==
    /\ maxParallelTextureUnits' = clamp(value)
    /\ emitted' = <<[event |-> "SET_PARALLEL_TEXTURE_UNITS",
                     value |-> maxParallelTextureUnits']>>
    /\ lastValue' = value
    /\ UNCHANGED maxTextures
    /\ UNCHANGED outsideTexture

\* autoMobilePipeline on a non-desktop device starts with one texture unit.
InitTexture(maxTexturesChoices) ==
    /\ maxTextures \in maxTexturesChoices
    /\ maxParallelTextureUnits \in {1, maxTextures}
    /\ emitted = <<>>
    /\ lastValue = Undefined

Values == (0 - 2)..(MaxTexturesBound + 6)

\* ------------------------------ BatchHandlerPointLight: element indices

\* A store into a Uint16Array keeps the value modulo 2^16.
ToUint16(x) == x % Uint16Limit

\* The values one pass of the loop stores, in the order of its offset++.
instanceIndices(i) ==
    LET index == i * 4
    IN  <<index, index, index + 1, index + 2, index + 3, index + 3>>

\* _generateElementIndices: the buffer it returns. The view has one element per
\* BytesPerIndex bytes, zero until stored to; pass i of the loop stores at the
\* offsets that follow those of pass i - 1, and a store past the end is dropped.
generateElementIndices(instances) ==
    LET byteLength == instances * 6 * 2
        length == byteLength \div BytesPerIndex
        perPass == Len(instanceIndices(0))
    IN  [byteLength |-> byteLength,
         indices |-> [offset \in 1..length |->
                         LET i == (offset - 1) \div perPass
                         IN  IF i < instances
                             THEN ToUint16(instanceIndices(i)[((offset - 1) % perPass) + 1])
                             ELSE 0]]

\* The buffer returned, read as unsigned 16-bit integers (position 0 first).
elementIndices ==
    IF elementBytes = Undefined THEN <<>>
    ELSE generateElementIndices(elementInstances).indices

GenerateElementIndices ==
    LET buffer == generateElementIndices(elementInstances)
    IN  /\ elementBytes = Undefined
        /\ elementBytes' = buffer.byteLength
        /\ UNCHANGED elementInstances
        /\ UNCHANGED outsideElements

\* The handler sizes in view: the small ones, and the two on either side of the
\* largest vertex number an index can hold.
ElementSizes ==
    (0..MaxElementInstances)
        \cup {Uint16Limit \div VerticesPerInstance, (Uint16Limit \div VerticesPerInstance) + 1}

InitElements(sizes) ==
    /\ elementInstances \in sizes
    /\ elementBytes = Undefined

\* ------------------------------- TilemapLayerWebGLRenderer, SubmitterTile

\* JavaScript's a || b on node references: a unless it is missing.
OrSecond(a, b) == b

Or(a, b) == IF a # Null THEN a ELSE b

\* A call made on another object.
Call(kind, id, method, args) ==
    [kind |-> kind, id |-> id, method |-> method, args |-> args]

SubmitterNodes == {1, 2}

\* A game object as the renderers read it: the nodes it overrides (Null where it
\* overrides nothing), the defaults for its type, and its own tintFill.
GameObjects ==
    [customRenderNodes : [Submitter : SubmitterNodes \cup {Null},
                          BatchHandler : Handlers \cup {Null}],
     defaultRenderNodes : [Submitter : SubmitterNodes, BatchHandler : Handlers],
     tintFill : BOOLEAN]

tilemapLayerWebGLRenderer(src, drawingContext) ==
    LET submitterNode == Or(src.customRenderNodes.Submitter,
                            src.defaultRenderNodes.Submitter)
    IN  <<Call("Submitter", submitterNode, "run",
               [drawingContext |-> drawingContext, gameObject |-> src])>>

\* A packed 32-bit colour: a is bits 24..31, rgb bits 0..23.
Colour(a, rgb) == [a |-> a, rgb |-> rgb]
White == Colour(255, (2 ^ 24) - 1)

\* Utils.getTintAppendFloatAlpha: the alpha, as a byte, or-ed into bits 24..31
\* of the colour; the result is read as an unsigned 32-bit integer.
RECURSIVE BitOr(_, _, _)
BitOr(a, b, bits) ==
    IF bits = 0 THEN 0
    ELSE (IF a % 2 = 1 \/ b % 2 = 1 THEN 1 ELSE 0)
             + 2 * BitOr(a \div 2, b \div 2, bits - 1)

getTint(colour, alphaByte) == Colour(BitOr(alphaByte, colour.a, 8), colour.rgb)

\* What the stage nodes hold once they have run: the frame's texture, its uv
\* rectangle, the transformed quad (x, y of TL, BL, BR, TR) and the corner tints.
TexturerNodes ==
    [run : BOOLEAN, glTexture : {7}, uvSource : {[u0 |-> 10, v0 |-> 20, u1 |-> 13, v1 |-> 27]}]
TransformerNodes ==
    [run : BOOLEAN, quad : {<<100, 101, 102, 103, 104, 105, 106, 107>>}]
NoTinter == [run |-> FALSE, present |-> FALSE, tintFill |-> FALSE,
             tintTopLeft |-> White, tintBottomLeft |-> White,
             tintTopRight |-> White, tintBottomRight |-> White]
TinterNodes ==
    [run : BOOLEAN, present : {TRUE}, tintFill : BOOLEAN,
     tintTopLeft : {Colour(255, 201)}, tintBottomLeft : {Colour(255, 202)},
     tintTopRight : {Colour(255, 203)}, tintBottomRight : {Colour(255, 204)}]
CameraAlphaBytes == {0, 127, 255}

\* SubmitterTile.run calling run on every stage it is given, run method or not.
submitterTileRunEveryStage(drawingContext, cameraAlpha, gameObject, texturerNode, transformerNode, tinterNode) ==
    LET begin == <<Call("this", Null, "onRunBegin", [drawingContext |-> drawingContext])>>
        texture == IF TRUE
                   THEN <<Call("Texturer", Null, "run",
                               [drawingContext |-> drawingContext,
                                gameObject |-> gameObject])>>
                   ELSE <<>>
        transform == IF TRUE
                     THEN <<Call("Transformer", Null, "run",
                                 [drawingContext |-> drawingContext,
                                  gameObject |-> gameObject])>>
                     ELSE <<>>
        tinted == IF tinterNode.present
                  THEN <<Call("Tinter", Null, "run",
                              [drawingContext |-> drawingContext,
                               gameObject |-> gameObject])>>
                  ELSE <<>>
        tint == getTint(White, cameraAlpha)
        tintFill == IF tinterNode.present THEN tinterNode.tintFill ELSE gameObject.tintFill
        tintTopLeft == IF tinterNode.present THEN tinterNode.tintTopLeft ELSE tint
        tintBottomLeft == IF tinterNode.present THEN tinterNode.tintBottomLeft ELSE tint
        tintTopRight == IF tinterNode.present THEN tinterNode.tintTopRight ELSE tint
        tintBottomRight == IF tinterNode.present THEN tinterNode.tintBottomRight ELSE tint
        quad == transformerNode.quad
        u0 == texturerNode.uvSource.u0
        v0 == texturerNode.uvSource.v0
        u1 == texturerNode.uvSource.u1
        v1 == texturerNode.uvSource.v1
        options == <<Call("this", Null, "setRenderOptions", [gameObject |-> gameObject])>>
        handler == Or(gameObject.customRenderNodes.BatchHandler,
                      gameObject.defaultRenderNodes.BatchHandler)
        batched == <<Call("BatchHandler", handler, "batch",
                          [drawingContext |-> drawingContext,
                           glTexture |-> texturerNode.glTexture,
                           positions |-> <<quad[1], quad[2], quad[3], quad[4],
                                           quad[7], quad[8], quad[5], quad[6]>>,
                           texCoords |-> <<u0, v0, u1 - u0, v1 - v0>>,
                           frameCoords |-> <<u0, v0, u0, v1, u1, v0, u1, v1>>,
                           tintFill |-> tintFill,
                           tints |-> <<tintTopLeft, tintBottomLeft,
                                       tintTopRight, tintBottomRight>>])>>
        end == <<Call("this", Null, "onRunEnd", [drawingContext |-> drawingContext])>>
    IN  begin \o texture \o transform \o tinted \o options \o batched \o end

\* SubmitterTile.run: the calls it makes. quad[k] of the source is quad[k + 1] here.
submitterTileRun(drawingContext, cameraAlpha, gameObject, texturerNode, transformerNode, tinterNode) ==
    LET begin == <<Call("this", Null, "onRunBegin", [drawingContext |-> drawingContext])>>
        texture == IF texturerNode.run
                   THEN <<Call("Texturer", Null, "run",
                               [drawingContext |-> drawingContext,
                                gameObject |-> gameObject])>>
                   ELSE <<>>
        transform == IF transformerNode.run
                     THEN <<Call("Transformer", Null, "run",
                                 [drawingContext |-> drawingContext,
                                  gameObject |-> gameObject])>>
                     ELSE <<>>
        tinted == IF tinterNode.present /\ tinterNode.run
                  THEN <<Call("Tinter", Null, "run",
                              [drawingContext |-> drawingContext,
                               gameObject |-> gameObject])>>
                  ELSE <<>>
        tint == getTint(White, cameraAlpha)
        tintFill == IF tinterNode.present THEN tinterNode.tintFill ELSE gameObject.tintFill
        tintTopLeft == IF tinterNode.present THEN tinterNode.tintTopLeft ELSE tint
        tintBottomLeft == IF tinterNode.present THEN tinterNode.tintBottomLeft ELSE tint
        tintTopRight == IF tinterNode.present THEN tinterNode.tintTopRight ELSE tint
        tintBottomRight == IF tinterNode.present THEN tinterNode.tintBottomRight ELSE tint
        quad == transformerNode.quad
        u0 == texturerNode.uvSource.u0
        v0 == texturerNode.uvSource.v0
        u1 == texturerNode.uvSource.u1
        v1 == texturerNode.uvSource.v1
        options == <<Call("this", Null, "setRenderOptions", [gameObject |-> gameObject])>>
        handler == Or(gameObject.customRenderNodes.BatchHandler,
                      gameObject.defaultRenderNodes.BatchHandler)
        batched == <<Call("BatchHandler", handler, "batch",
                          [drawingContext |-> drawingContext,
                           glTexture |-> texturerNode.glTexture,
                           positions |-> <<quad[1], quad[2], quad[3], quad[4],
                                           quad[7], quad[8], quad[5], quad[6]>>,
                           texCoords |-> <<u0, v0, u1 - u0, v1 - v0>>,
                           frameCoords |-> <<u0, v0, u0, v1, u1, v0, u1, v1>>,
                           tintFill |-> tintFill,
                           tints |-> <<tintTopLeft, tintBottomLeft,
                                       tintTopRight, tintBottomRight>>])>>
        end == <<Call("this", Null, "onRunEnd", [drawingContext |-> drawingContext])>>
    IN  begin \o texture \o transform \o tinted \o options \o batched \o end

\* One vertex as BatchHandlerPointLight.batch stores it: FloatsPerVertex floats.
lightVertex(x, y, lightX, lightY, radius, attenuation, r, g, b, a) ==
    <<x, y, lightX, lightY, radius, attenuation, r, g, b, a>>

\* The stores of batch writing the corners in the order of its parameters.
batchVerticesInParameterOrder(instanceCountBefore, cameraAlpha, light, xTL, yTL, xBL, yBL, xTR, yTR, xBR, yBR, lightX, lightY) ==
    LET r == light.color.r * light.intensity
        g == light.color.g * light.intensity
        b == light.color.b * light.intensity
        a == cameraAlpha * light.alpha
        vertexOffset32 == instanceCountBefore * floatsPerInstance
        values == lightVertex(xTL, yTL, lightX, lightY, light.radius, light.attenuation, r, g, b, a)
                  \o lightVertex(xBL, yBL, lightX, lightY, light.radius, light.attenuation, r, g, b, a)
                  \o lightVertex(xTR, yTR, lightX, lightY, light.radius, light.attenuation, r, g, b, a)
                  \o lightVertex(xBR, yBR, lightX, lightY, light.radius, light.attenuation, r, g, b, a)
    IN  [k \in 1..Len(values) |->
            Call("vertexViewF32", vertexOffset32 + k - 1, "store", [value |-> values[k]])]

\* BatchHandlerPointLight.batch: the stores it makes into the vertex buffer for
\* the instance in slot instanceCount, in program order.
batchVertices(instanceCountBefore, cameraAlpha, light, xTL, yTL, xBL, yBL, xTR, yTR, xBR, yBR, lightX, lightY) ==
    LET r == light.color.r * light.intensity
        g == light.color.g * light.intensity
        b == light.color.b * light.intensity
        a == cameraAlpha * light.alpha
        vertexOffset32 == instanceCountBefore * floatsPerInstance
        values == lightVertex(xBL, yBL, lightX, lightY, light.radius, light.attenuation, r, g, b, a)
                  \o lightVertex(xTL, yTL, lightX, lightY, light.radius, light.attenuation, r, g, b, a)
                  \o lightVertex(xBR, yBR, lightX, lightY, light.radius, light.attenuation, r, g, b, a)
                  \o lightVertex(xTR, yTR, lightX, lightY, light.radius, light.attenuation, r, g, b, a)
    IN  [k \in 1..Len(values) |->
            Call("vertexViewF32", vertexOffset32 + k - 1, "store", [value |-> values[k]])]

Lights ==
    [color : {[r |-> 2, g |-> 3, b |-> 5]}, intensity : {1, 2}, radius : {50},
     attenuation : {9}, alpha : {1, 2}]

\* The corners are given distinct coordinates: TL (11, 12), BL (21, 22),
\* TR (31, 32), BR (41, 42).
BatchVerticesArgs ==
    [op : {"BatchHandlerPointLight.batch"},
     instanceCount : 0..(MaxInstancesPerBatch - 1),
     cameraAlpha : {1, 3},
     light : Lights,
     xTL : {11}, yTL : {12}, xBL : {21}, yBL : {22},
     xTR : {31}, yTR : {32}, xBR : {41}, yBR : {42},
     lightX : {60}, lightY : {70}]

TilemapArgs ==
    [op : {"TilemapLayerWebGLRenderer"}, src : GameObjects, drawingContext : Contexts]

SubmitterTileArgs ==
    [op : {"SubmitterTile.run"}, drawingContext : Contexts,
     cameraAlpha : CameraAlphaBytes, gameObject : GameObjects,
     texturerNode : TexturerNodes, transformerNode : TransformerNodes,
     tinterNode : TinterNodes \cup {NoTinter}]

TilemapLayerWebGLRenderer ==
    /\ submitArgs.op = "TilemapLayerWebGLRenderer"
    /\ calls = <<>>
    /\ calls' = tilemapLayerWebGLRenderer(submitArgs.src, submitArgs.drawingContext)
    /\ UNCHANGED submitArgs
    /\ UNCHANGED outsideSubmit

SubmitterTileRun ==
    /\ submitArgs.op = "SubmitterTile.run"
    /\ calls = <<>>
    /\ calls' = submitterTileRun(submitArgs.drawingContext, submitArgs.cameraAlpha,
                                 submitArgs.gameObject, submitArgs.texturerNode,
                                 submitArgs.transformerNode, submitArgs.tinterNode)
    /\ UNCHANGED submitArgs
    /\ UNCHANGED outsideSubmit

BatchVertices ==
    /\ submitArgs.op = "BatchHandlerPointLight.batch"
    /\ calls = <<>>
    /\ calls' = batchVertices(submitArgs.instanceCount, submitArgs.cameraAlpha,
                              submitArgs.light,
                              submitArgs.xTL, submitArgs.yTL, submitArgs.xBL, submitArgs.yBL,
                              submitArgs.xTR, submitArgs.yTR, submitArgs.xBR, submitArgs.yBR,
                              submitArgs.lightX, submitArgs.lightY)
    /\ UNCHANGED submitArgs
    /\ UNCHANGED outsideSubmit

NoSubmit == [op |-> "none"]

InitSubmit(args) ==
    /\ submitArgs \in args
    /\ calls = <<>>

\* ------------------------------------------------------------ Camera.run

\* DrawingContext.getClone: a new context, none of those in circulation.
getClone(drawingContext) == drawingContext + NumContexts

\* FillRect.run: a draw of its own, so it asks for a stand-alone render first.
fillRectRun(st, drawingContext) ==
    startStandAloneRender(Emit(st, Event("FillRect.run", Null, drawingContext, 0, <<>>)))

\* ListCompositor.run: each child in list order; a child is drawn by one batch
\* request to its handler, under the context the compositor was given.
RECURSIVE compositeChildren(_, _, _)
compositeChildren(st, drawingContext, children) ==
    IF children = <<>> THEN st
    ELSE compositeChildren(batch(st, Head(children), drawingContext),
                           drawingContext, Tail(children))

listCompositorRun(st, drawingContext, children) ==
    compositeChildren(Emit(st, Event("ListCompositor.run", Null, drawingContext,
                                     Len(children), children)),
                      drawingContext, children)

\* Camera.run leaving its clone unreleased.
cameraRunNoRelease(st, drawingContext, children, camera) ==
    LET custom == camera.customViewport
        currentContext == IF custom THEN getClone(drawingContext) ELSE drawingContext
        s1 == IF custom
              THEN Emit(Emit(Emit(st,
                       Event("getClone", Null, currentContext, 0, <<drawingContext>>)),
                       Event("setScissorBox", Null, currentContext, 0,
                             <<camera.x, camera.y, camera.width, camera.height>>)),
                       Event("use", Null, currentContext, 0, <<>>))
              ELSE st
        s2 == IF camera.alphaGL > 0 THEN fillRectRun(s1, currentContext) ELSE s1
        s3 == listCompositorRun(s2, currentContext, children)
        s4 == s3
        s5 == Emit(s4, Event("camera.dirty", Null, Null, 0, <<>>))
    IN  Emit(s5, Event("POST_RENDER", Null, Null, 0, <<>>))

\* Camera.run filling the background whatever its alpha.
cameraRunFillAlways(st, drawingContext, children, camera) ==
    LET custom == camera.customViewport
        currentContext == IF custom THEN getClone(drawingContext) ELSE drawingContext
        s1 == IF custom
              THEN Emit(Emit(Emit(st,
                       Event("getClone", Null, currentContext, 0, <<drawingContext>>)),
                       Event("setScissorBox", Null, currentContext, 0,
                             <<camera.x, camera.y, camera.width, camera.height>>)),
                       Event("use", Null, currentContext, 0, <<>>))
              ELSE st
        s2 == fillRectRun(s1, currentContext)
        s3 == listCompositorRun(s2, currentContext, children)
        s4 == IF custom
              THEN Emit(s3, Event("release", Null, currentContext, 0, <<>>))
              ELSE s3
        s5 == Emit(s4, Event("camera.dirty", Null, Null, 0, <<>>))
    IN  Emit(s5, Event("POST_RENDER", Null, Null, 0, <<>>))

\* Camera.run. The context calls, the assignment to camera.dirty and the event
\* emitted are logged with the batch machine's own events, in program order.
cameraRun(st, drawingContext, children, camera) ==
    LET custom == camera.customViewport
        currentContext == IF custom THEN getClone(drawingContext) ELSE drawingContext
        s1 == IF custom
              THEN Emit(Emit(Emit(st,
                       Event("getClone", Null, currentContext, 0, <<drawingContext>>)),
                       Event("setScissorBox", Null, currentContext, 0,
                             <<camera.x, camera.y, camera.width, camera.height>>)),
                       Event("use", Null, currentContext, 0, <<>>))
              ELSE st
        s2 == IF camera.alphaGL > 0 THEN fillRectRun(s1, currentContext) ELSE s1
        s3 == listCompositorRun(s2, currentContext, children)
        s4 == IF custom
              THEN Emit(s3, Event("release", Null, currentContext, 0, <<>>))
              ELSE s3
        s5 == Emit(s4, Event("camera.dirty", Null, Null, 0, <<>>))
    IN  Emit(s5, Event("POST_RENDER", Null, Null, 0, <<>>))

RECURSIVE SeqsUpTo(_, _)
SeqsUpTo(S, n) ==
    IF n = 0 THEN {<<>>}
    ELSE SeqsUpTo(S, n - 1)
             \cup {Append(q, x) : q \in {r \in SeqsUpTo(S, n - 1) : Len(r) = n - 1}, x \in S}

Cameras ==
    [customViewport : BOOLEAN, alphaGL : {0, 1},
     x : {10}, y : {20}, width : {30}, height : {40}]

CameraArgs ==
    [drawingContext : FrameContexts,
     children : SeqsUpTo(FrameHandlers, MaxChildren),
     camera : Cameras]

CameraRun ==
    /\ lastOp.op # "Camera.run"
    /\ Install(cameraRun(BatchState, cameraArgs.drawingContext, cameraArgs.children,
                         cameraArgs.camera))
    /\ lastOp' = [op |-> "Camera.run", node |-> Null,
                  ctx |-> cameraArgs.drawingContext, again |-> FALSE]
    /\ streak' = NoStreak
    /\ cameraDirty' = (IF At(trace', "camera.dirty") # {} THEN FALSE ELSE cameraDirty)
    /\ UNCHANGED cameraArgs
    /\ UNCHANGED outsideCamera

\* An object drawn before the camera pass, by an earlier camera of the frame.
DrawnBefore(h, c) ==
    /\ lastOp = NoOp
    /\ BatchCall(h, c)
    /\ UNCHANGED cameraVars
    /\ UNCHANGED outsideCamera

NoCamera ==
    [drawingContext |-> Null, children |-> <<>>,
     camera |-> [customViewport |-> FALSE, alphaGL |-> 0,
                 x |-> 0, y |-> 0, width |-> 0, height |-> 0]]

InitCamera(args) ==
    /\ cameraArgs \in args
    /\ cameraDirty = TRUE

\* ----------------------------------------------------------- specifications

NextBatch ==
    \/ \E h \in Handlers, c \in Contexts : Batch(h, c)
    \/ \E h \in Handlers, c \in Contexts : Run(h, c)
    \/ \E h \in Handlers, c \in Contexts : SetCurrentBatchNode(h, c)
    \/ \E c \in Contexts \cup {Null} : SetCurrentBatchNode(Null, c)
    \/ StartStandAloneRender

NextRegistry ==
    \/ \E n \in Names : AddNode(n)
    \/ \E n \in Names, k \in CustomConstructors : AddNodeConstructor(n, k)
    \/ \E n \in Names : GetNode(n)
    \/ \E n \in Names, f \in BOOLEAN : HasNode(n, f)

NextTexture ==
    \E v \in Values \cup {Undefined} : SetMaxParallelTextureUnits(v)

NextElements == GenerateElementIndices

NextSubmit == TilemapLayerWebGLRenderer \/ SubmitterTileRun \/ BatchVertices

NextCamera ==
    \/ \E h \in FrameHandlers, c \in FrameContexts : DrawnBefore(h, c)
    \/ CameraRun

NextDebug ==
    \/ \E v \in BOOLEAN : SetDebug(v)
    \/ PostRender
    \/ \E n \in DebugNames : RunBegin(n)
    \/ RunEnd
    \/ \E n \in DebugNames : PushDebugDisabled(n)
    \/ PopDebugDisabled
    \/ DebugToString
    \/ \E n \in DebugNames \cap CustomNames : AddNode(n)
    \/ \E n \in DebugNames \cap BuiltInNames : GetNode(n)

NextFrame ==
    \/ \E h \in FrameHandlers, c \in FrameContexts : FrameBatch(h, c)
    \/ FrameStandAloneRender

Init ==
    /\ InitBatch
    /\ InitRegistry
    /\ InitTexture(1..MaxTexturesBound)
    /\ InitElements(ElementSizes)
    /\ InitFrame
    /\ InitSubmit(TilemapArgs \cup SubmitterTileArgs \cup BatchVerticesArgs)
    /\ InitCamera(CameraArgs)
    /\ InitDebug
Next ==
    \/ NextCamera
    \/ NextBatch
    \/ NextRegistry
    \/ NextTexture
    \/ NextElements
    \/ NextFrame
    \/ NextSubmit
    \/ NextDebug
Spec == Init /\ [][Next]_vars

\* Each part of the manager on its own, the other parts left as constructed.
FixedCapacity == instancesPerBatch = [h \in Handlers |-> MaxInstancesPerBatch]
Desktop == maxParallelTextureUnits = maxTextures
InitForBatch ==
    /\ InitBatch
    /\ InitRegistry
    /\ InitTexture({MaxTexturesBound})
    /\ Desktop
    /\ InitElements({MaxInstancesPerBatch})
    /\ InitFrame
    /\ InitSubmit({NoSubmit})
    /\ InitCamera({NoCamera})
    /\ InitDebug
InitForRegistry == InitForBatch /\ FixedCapacity
InitForDebug == InitForBatch /\ FixedCapacity
InitForTexture ==
    /\ InitBatch
    /\ InitRegistry
    /\ InitTexture(1..MaxTexturesBound)
    /\ InitElements({MaxInstancesPerBatch})
    /\ InitFrame
    /\ InitSubmit({NoSubmit})
    /\ InitCamera({NoCamera})
    /\ InitDebug
    /\ FixedCapacity
InitForElements ==
    /\ InitBatch
    /\ InitRegistry
    /\ InitTexture({MaxTexturesBound})
    /\ Desktop
    /\ FixedCapacity
    /\ InitElements(ElementSizes)
    /\ InitFrame
    /\ InitSubmit({NoSubmit})
    /\ InitCamera({NoCamera})
    /\ InitDebug
InitForFrame ==
    /\ InitSameCapacity(1..(MaxInstancesPerBatch + 1))
    /\ InitCurrentBatch
    /\ InitRegistry
    /\ InitTexture({MaxTexturesBound})
    /\ Desktop
    /\ InitElements({MaxInstancesPerBatch})
    /\ InitFrame
    /\ InitSubmit({NoSubmit})
    /\ InitCamera({NoCamera})
    /\ InitDebug
InitForSubmit ==
    /\ InitBatch
    /\ FixedCapacity
    /\ InitRegistry
    /\ InitTexture({MaxTexturesBound})
    /\ Desktop
    /\ InitElements({MaxInstancesPerBatch})
    /\ InitFrame
    /\ InitSubmit(TilemapArgs \cup SubmitterTileArgs \cup BatchVerticesArgs)
    /\ InitCamera({NoCamera})
    /\ InitDebug
InitForCamera ==
    /\ InitSameCapacity(1..MaxInstancesPerBatch)
    /\ InitCurrentBatch
    /\ InitRegistry
    /\ InitTexture({MaxTexturesBound})
    /\ Desktop
    /\ InitElements({MaxInstancesPerBatch})
    /\ InitFrame
    /\ InitSubmit({NoSubmit})
    /\ InitCamera(CameraArgs)
    /\ InitDebug
SpecBatch == InitForBatch /\ [][NextBatch]_vars
SpecRegistry == InitForRegistry /\ [][NextRegistry]_vars
SpecTexture == InitForTexture /\ [][NextTexture]_vars
SpecElements == InitForElements /\ [][NextElements]_vars
SpecFrame == InitForFrame /\ [][NextFrame]_vars
SpecSubmit == InitForSubmit /\ [][NextSubmit]_vars
SpecCamera == InitForCamera /\ [][NextCamera]_vars
SpecDebug == InitForDebug /\ [][NextDebug]_vars


\* ------------------------------------------------------------------ claims

\* C1: with A current and B another node, setCurrentBatchNode(B, ctx) calls
\* A.run exactly once (and no other node's run), everything that run does comes
\* before currentBatchNode becomes B; setCurrentBatchNode(A, ctx) with A already
\* current calls no run and changes neither the current node nor the stored context.
C1_SwitchFlushesOnceBefore ==
    [][lastOp'.op = "setCurrentBatchNode" =>
        LET A == currentBatchNode
            B == lastOp'.node
        IN  /\ (A # Null /\ A # B) =>
                /\ Cardinality(At(trace', "run")) = 1
                /\ \A i \in At(trace', "run") : trace'[i].node = A
                /\ Cardinality(At(trace', "setCurrent")) = 1
                /\ \A j \in At(trace', "setCurrent") :
                      /\ trace'[j].node = B
                      /\ \A i \in 1..Len(trace') : i # j => i < j /\ trace'[i].node = A
                /\ currentBatchNode' = B
            /\ A = B =>
                /\ trace' = <<>>
                /\ currentBatchNode' = A
                /\ currentBatchDrawingContext' = currentBatchDrawingContext
      ]_vars

C1_Witness ==
    /\ lastOp.op = "setCurrentBatchNode"
    /\ lastOp.node # Null
    /\ currentBatchNode = lastOp.node
    /\ \E i \in At(trace, "drawElements") :
          trace[i].node # lastOp.node /\ Len(trace[i].data) = 2

\* C2: a handler with instanceCount > 0 is the manager's currentBatchNode, so at
\* most one handler is mid-accumulation, and every write batch() makes happens
\* while the writing handler is the current batch node.
C2_PendingIsCurrent ==
    /\ \A h \in Handlers : instanceCount[h] > 0 => currentBatchNode = h
    /\ Cardinality({h \in Handlers : instanceCount[h] > 0}) <= 1
    /\ \A i \in At(trace, "write") : trace[i].data = <<trace[i].node>>

C2_Witness ==
    /\ lastOp.op = "batch"
    /\ instanceCount[lastOp.node] = 1
    /\ currentBatchNode = lastOp.node
    /\ \E i \in At(trace, "drawElements") : trace[i].node # lastOp.node

\* C3: a batch() under another drawing context flushes what is pending first and
\* stores the new context: after a batch(h, c) that leaves h accumulating, the
\* stored context is c; every pending instance was batched under the stored
\* context; every draw call covers only instances batched under the context it
\* draws with.
C3_ContextSwitchFlushes ==
    /\ (lastOp.op = "batch" /\ instanceCount[lastOp.node] > 0) =>
          currentBatchDrawingContext = lastOp.ctx
    /\ \A h \in Handlers : \A k \in 1..instanceCount[h] :
          vertexBuffer[h][k] = currentBatchDrawingContext
    /\ \A i \in At(trace, "drawElements") :
          \A k \in 1..Len(trace[i].data) : trace[i].data[k] = trace[i].ctx

\* C4: 0 <= instanceCount <= instancesPerBatch always (also at the moment run is
\* entered), instanceCount < instancesPerBatch between calls, and every write
\* lands in a slot below instancesPerBatch.
C4_NeverOverfilled ==
    /\ \A h \in Handlers : 0 <= instanceCount[h] /\ instanceCount[h] < instancesPerBatch[h]
    /\ \A i \in At(trace, "run") :
          0 <= trace[i].n /\ trace[i].n <= instancesPerBatch[trace[i].node]
    /\ \A i \in At(trace, "write") :
          0 <= trace[i].n /\ trace[i].n < instancesPerBatch[trace[i].node]

C4_Witness ==
    /\ lastOp.op = "batch"
    /\ instancesPerBatch[lastOp.node] >= 2
    /\ \E i \in At(trace, "write") : trace[i].n = instancesPerBatch[lastOp.node] - 1
    /\ \E i \in At(trace, "drawElements") : trace[i].node = lastOp.node
    /\ instanceCount[lastOp.node] = 0

\* C5 as stated: after N <= instancesPerBatch consecutive batch() calls on a
\* handler that started empty, instanceCount equals N, and no draw call was made
\* while N was below instancesPerBatch.
C5_CountEqualsCalls ==
    streak.node # Null =>
        /\ streak.calls <= instancesPerBatch[streak.node]
        /\ instanceCount[streak.node] = streak.calls
        /\ streak.calls < instancesPerBatch[streak.node] => streak.draws = 0

\* C5 amended: while N < instancesPerBatch, instanceCount equals N and the handler
\* has made no draw call; the call that makes N = instancesPerBatch makes exactly
\* one draw call, covering all N instances, and leaves instanceCount at 0.
C5_CountEqualsCallsBelowCapacity ==
    streak.node # Null =>
        LET h == streak.node
        IN  /\ streak.calls <= instancesPerBatch[h]
            /\ streak.calls < instancesPerBatch[h] =>
                  instanceCount[h] = streak.calls /\ streak.draws = 0
            /\ streak.calls = instancesPerBatch[h] =>
                  /\ instanceCount[h] = 0
                  /\ streak.draws = 1
                  /\ \A i \in At(trace, "drawElements") :
                        trace[i].node = h => Len(trace[i].data) = streak.calls

C5_Witness ==
    /\ streak.node # Null
    /\ streak.calls = 2
    /\ instancesPerBatch[streak.node] = 3
    /\ instanceCount[streak.node] = 2

\* C6: run leaves instanceCount at 0 (onRunEnd already sees 0), and a second run
\* right after it does nothing but return: no onRunBegin, buffer update, draw
\* call or onRunEnd, and no change of state.
C6_RunResetsAndIsIdempotent ==
    /\ [](/\ lastOp.op = "run" => instanceCount[lastOp.node] = 0
          /\ \A i \in At(trace, "onRunEnd") : trace[i].n = 0
          /\ (lastOp.op = "run" /\ lastOp.again) =>
                trace = <<Event("run", lastOp.node, lastOp.ctx, 0, <<>>)>>)
    /\ [][(lastOp.op = "run" /\ lastOp'.op = "run" /\ lastOp'.node = lastOp.node) =>
            UNCHANGED <<instancesPerBatch, instanceCount, vertexBuffer,
                        currentBatchNode, currentBatchDrawingContext>>]_vars

C6_Witness ==
    /\ lastOp.op = "run"
    /\ lastOp.again
    /\ currentBatchNode = lastOp.node
    /\ instanceCount[lastOp.node] = 0


Registered(n) == nodes[n] # NoNode \/ nodeConstructors[n] # NoCtor

\* C7: registering a name that is already registered, by instance or by
\* constructor, fails with an error whichever way it was registered before
\* (built-in names included); registering an unused name succeeds and the name is
\* retrievable afterwards.
C7_DuplicateRegistrationFails ==
    [][result'.op \in {"addNode", "addNodeConstructor"} =>
        LET n == result'.name
        IN  /\ Registered(n) => result'.threw
            /\ ~Registered(n) =>
                  /\ ~result'.threw
                  /\ getNode(RegistryState, n).ret = NoNode
                  /\ nodes'[n] # NoNode \/ nodeConstructors'[n] # NoCtor
      ]_vars

\* C8: getNode never raises; it returns the stored instance if there is one;
\* otherwise, with a constructor registered, it constructs a new node, stores and
\* returns it; no name is constructed twice and a stored instance is never
\* replaced, so later calls return the same instance; with neither it returns
\* null and leaves the registry unchanged.
C8_GetNodeLazyOnce ==
    /\ [](\A n \in Names : constructed[n] <= 1)
    /\ [][\A n \in Names : nodes[n] # NoNode => nodes'[n] = nodes[n]]_vars
    /\ [][result'.op = "getNode" =>
            LET n == result'.name
            IN  /\ ~result'.threw
                /\ nodes[n] # NoNode =>
                      /\ result'.ret = nodes[n]
                      /\ UNCHANGED <<nodes, nodeConstructors, constructed, nextId>>
                /\ (nodes[n] = NoNode /\ nodeConstructors[n] # NoCtor) =>
                      /\ result'.ret # NoNode
                      /\ result'.ret.class = nodeConstructors[n]
                      /\ \A m \in Names : nodes[m].id # result'.ret.id
                      /\ nodes' = [nodes EXCEPT ![n] = result'.ret]
                      /\ constructed' = [constructed EXCEPT ![n] = @ + 1]
                      /\ UNCHANGED nodeConstructors
                /\ (nodes[n] = NoNode /\ nodeConstructors[n] = NoCtor) =>
                      /\ result'.ret = NoNode
                      /\ UNCHANGED <<nodes, nodeConstructors, constructed, nextId>>
          ]_vars

C8_Witness ==
    /\ result.op = "getNode"
    /\ result.name \in CustomNames
    /\ constructed[result.name] = 1
    /\ result.ret = nodes[result.name]
    /\ result.ret.class = "CustomNode"
    /\ result.ret.id > 1

\* C9: hasNode(name) is true exactly when getNode(name) would return a node,
\* hasNode(name, true) exactly when an instance is stored, and hasNode changes
\* nothing in the registry.
C9_HasNodeMatchesGetNode ==
    /\ [](\A n \in Names :
            /\ hasNode(RegistryState, n, FALSE) <=> getNode(RegistryState, n).ret # NoNode
            /\ hasNode(RegistryState, n, TRUE) <=> nodes[n] # NoNode)
    /\ [](/\ result.op = "hasNode" => (result.bool <=> Registered(result.name))
          /\ result.op = "hasNodeStrict" => (result.bool <=> nodes[result.name] # NoNode))
    /\ [][result'.op \in {"hasNode", "hasNodeStrict"} =>
            UNCHANGED <<nodes, nodeConstructors, nextId, constructed, nodeDebug>>]_vars

C9_Witness ==
    /\ result.op = "hasNodeStrict"
    /\ ~result.bool
    /\ result.name \in CustomNames
    /\ nodeConstructors[result.name] # NoCtor
    /\ hasNode(RegistryState, result.name, FALSE)

\* C10: after setMaxParallelTextureUnits(v) with an integer v the stored value
\* is v clamped into [1, maxTextures] (0 gives 1, maxTextures + 5 gives
\* maxTextures), and the call emitted exactly one SET_PARALLEL_TEXTURE_UNITS
\* event carrying the stored value.
C10_ClampedIntoRange ==
    (emitted # <<>> /\ lastValue # Undefined) =>
        /\ 1 <= maxParallelTextureUnits /\ maxParallelTextureUnits <= maxTextures
        /\ lastValue < 1 => maxParallelTextureUnits = 1
        /\ lastValue > maxTextures => maxParallelTextureUnits = maxTextures
        /\ (1 <= lastValue /\ lastValue <= maxTextures) =>
              maxParallelTextureUnits = lastValue
        /\ Len(emitted) = 1
        /\ emitted[1].event = "SET_PARALLEL_TEXTURE_UNITS"
        /\ emitted[1].value = maxParallelTextureUnits

C10_Witness ==
    /\ emitted # <<>>
    /\ maxTextures >= 2
    /\ lastValue = maxTextures + 5
    /\ maxParallelTextureUnits = maxTextures


\* C11: setMaxParallelTextureUnits called without a value stores the renderer's
\* maxTextures, and the event emitted carries that value.
C11_OmittedValueGivesMaxTextures ==
    (emitted # <<>> /\ lastValue = Undefined) =>
        /\ maxParallelTextureUnits = maxTextures
        /\ Len(emitted) = 1
        /\ emitted[1].value = maxTextures


\* C15: startStandAloneRender completes the pending batch, if there is one,
\* exactly once and with the stored drawing context; afterwards
\* currentBatchNode and currentBatchDrawingContext are both null and no handler
\* has pending instances; with no current batch it calls no run and changes nothing.
C15_StandAloneFlushesOnce ==
    [][lastOp'.op = "startStandAloneRender" =>
        LET A == currentBatchNode
        IN  /\ A # Null =>
                /\ Cardinality(At(trace', "run")) = 1
                /\ \A i \in At(trace', "run") :
                      /\ trace'[i].node = A
                      /\ trace'[i].ctx = currentBatchDrawingContext
                      /\ trace'[i].n = instanceCount[A]
                /\ Cardinality(At(trace', "drawElements")) =
                      (IF instanceCount[A] > 0 THEN 1 ELSE 0)
                /\ \A i \in At(trace', "drawElements") :
                      /\ trace'[i].node = A
                      /\ trace'[i].ctx = currentBatchDrawingContext
                      /\ trace'[i].data = vertexBuffer[A]
            /\ currentBatchNode' = Null
            /\ currentBatchDrawingContext' = Null
            /\ \A h \in Handlers : instanceCount'[h] = 0
            /\ A = Null =>
                /\ trace' = <<>>
                /\ UNCHANGED <<instancesPerBatch, instanceCount, vertexBuffer,
                               currentBatchNode, currentBatchDrawingContext>>
      ]_vars

C15_Witness ==
    /\ lastOp.op = "startStandAloneRender"
    /\ currentBatchNode = Null
    /\ \E i \in At(trace, "drawElements") : Len(trace[i].data) = 2

\* C17: when setCurrentBatchNode completes the previous node's batch it runs it
\* with the drawing context stored when that node became current, not with the
\* context of the new request; afterwards the new node and its context are
\* stored together, both null when the new node is null, so the stored context
\* is null whenever the current node is null.
C17_FlushUsesStoredContext ==
    /\ [](currentBatchNode = Null => currentBatchDrawingContext = Null)
    /\ [][(lastOp'.op = "setCurrentBatchNode" /\ currentBatchNode # lastOp'.node) =>
            /\ currentBatchNode # Null =>
                  \A i \in 1..Len(trace') :
                      trace'[i].node = currentBatchNode =>
                          trace'[i].ctx = currentBatchDrawingContext
            /\ currentBatchNode' = lastOp'.node
            /\ currentBatchDrawingContext' =
                  (IF lastOp'.node = Null THEN Null ELSE lastOp'.ctx)
         ]_vars

C17_Witness ==
    /\ lastOp.op = "setCurrentBatchNode"
    /\ lastOp.node = Null
    /\ lastOp.ctx # Null
    /\ currentBatchNode = Null
    /\ currentBatchDrawingContext = Null
    /\ \E i \in At(trace, "drawElements") : trace[i].ctx # lastOp.ctx

\* C18: a run with instanceCount = k > 0 does, in this order and once each:
\* onRunBegin, a vertex-buffer update of k * bytesPerInstance bytes, one
\* drawElements call of k * indicesPerInstance indices, the reset of
\* instanceCount, and onRunEnd, which therefore sees instanceCount = 0.
C18_RunSequence ==
    /\ \A i \in At(trace, "run") :
          LET k == trace[i].n
              h == trace[i].node
              c == trace[i].ctx
          IN  k > 0 =>
                /\ Len(trace) >= i + 4
                /\ trace[i + 1] = Event("onRunBegin", h, c, k, <<>>)
                /\ trace[i + 2] = Event("bufferUpdate", h, c, k * bytesPerInstance, <<>>)
                /\ trace[i + 3].ev = "drawElements"
                /\ trace[i + 3].node = h
                /\ trace[i + 3].ctx = c
                /\ trace[i + 3].n = k * IndicesPerInstance
                /\ Len(trace[i + 3].data) = k
                /\ trace[i + 4] = Event("onRunEnd", h, c, 0, <<>>)
    /\ \A j \in 1..Len(trace) :
          trace[j].ev \in {"onRunBegin", "bufferUpdate", "drawElements", "onRunEnd"} =>
              \E i \in At(trace, "run") : trace[i].n > 0 /\ i < j /\ j <= i + 4
    /\ lastOp.op = "run" => instanceCount[lastOp.node] = 0

C18_Witness ==
    /\ lastOp.op = "run"
    /\ Len(trace) = 5
    /\ trace[1].n = 2
    /\ trace[3].n = 2 * bytesPerInstance
    /\ trace[4].n = 2 * IndicesPerInstance

\* C19: batch registers the handler as the current batch node exactly when it is
\* called with instanceCount = 0, completing whatever other batch was current;
\* after a flush triggered by a full batch the handler is still the current
\* batch node with instanceCount = 0, and its next batch flushes no other node.
C19_RegistersOnFirstInstance ==
    /\ [](lastOp.op = "batch" => currentBatchNode = lastOp.node)
    /\ [][lastOp'.op = "batch" =>
            LET h == lastOp'.node
                A == currentBatchNode
                Registrations == At(trace', "setCurrent")
                OtherRuns == {i \in At(trace', "run") : trace'[i].node # h}
            IN  /\ instanceCount[h] > 0 => Registrations = {} /\ OtherRuns = {}
                /\ (instanceCount[h] = 0 /\ A # h) =>
                      /\ Cardinality(Registrations) = 1
                      /\ \A j \in Registrations :
                            /\ trace'[j].node = h
                            /\ trace'[j].ctx = lastOp'.ctx
                            /\ \A i \in At(trace', "write") : j < i
                            /\ \A i \in OtherRuns : i < j
                      /\ Cardinality(OtherRuns) = (IF A # Null THEN 1 ELSE 0)
                      /\ \A i \in OtherRuns : trace'[i].node = A
                /\ A = h => Registrations = {} /\ OtherRuns = {}
                /\ (\E i \in At(trace', "drawElements") : trace'[i].node = h) =>
                      currentBatchNode' = h /\ instanceCount'[h] = 0
         ]_vars

C19_Witness ==
    /\ lastOp.op = "batch"
    /\ instancesPerBatch[lastOp.node] = 2
    /\ trace = <<Event("write", lastOp.node, lastOp.ctx, 0, <<lastOp.node>>)>>
    /\ instanceCount[lastOp.node] = 1
    /\ currentBatchDrawingContext # lastOp.ctx


\* C12: for every N >= 0, _generateElementIndices(N) gives exactly 6N indices,
\* and for each i in [0, N) positions 6i..6i+5 hold 4i, 4i, 4i+1, 4i+2, 4i+3, 4i+3.
C12_SixIndicesPerInstance ==
    elementBytes # Undefined =>
        LET indices == elementIndices
        IN  /\ Len(indices) = 6 * elementInstances
            /\ elementBytes = Len(indices) * BytesPerIndex
            /\ \A i \in 0..(elementInstances - 1) :
                  /\ indices[6 * i + 1] = 4 * i
                  /\ indices[6 * i + 2] = 4 * i
                  /\ indices[6 * i + 3] = 4 * i + 1
                  /\ indices[6 * i + 4] = 4 * i + 2
                  /\ indices[6 * i + 5] = 4 * i + 3
                  /\ indices[6 * i + 6] = 4 * i + 3


\* The frame's requests as handler numbers, a flush trigger being Null.
FrameKinds == [i \in 1..Len(frameLog) |-> frameLog[i].node]

\* The sizes of the draw calls a handler has made this frame, and their instances.
DrawsOf(h) == SelectSeq(drawLog, LAMBDA d : d.node = h)

\* C13: three batch requests in a row to one handler, below its capacity, then a
\* flush trigger, give exactly one draw call, of 3 instances; with a request to
\* another handler after the second of them the first handler is flushed exactly
\* twice, with 2 and then 1 instances in the order requested, the first flush
\* coming before the other handler's instance is accumulated.
C13_ThreeThenFlush ==
    \A A \in FrameHandlers :
        /\ (FrameKinds = <<A, A, A>> /\ instancesPerBatch[A] > 3) =>
              /\ drawLog = <<>>
              /\ instanceCount[A] = 3
        /\ (FrameKinds = <<A, A, A, Null>> /\ instancesPerBatch[A] > 3) =>
              /\ Len(drawLog) = 1
              /\ drawLog[1].node = A
              /\ drawLog[1].n = 3 * IndicesPerInstance
              /\ drawLog[1].data = <<frameLog[1].ctx, frameLog[2].ctx, frameLog[3].ctx>>
        /\ \A B \in FrameHandlers \ {A} :
              /\ (FrameKinds = <<A, A, B>> /\ instancesPerBatch[A] > 2) =>
                    /\ Len(DrawsOf(A)) = 1
                    /\ \E i \in At(trace, "drawElements") :
                          /\ trace[i].node = A
                          /\ Len(trace[i].data) = 2
                          /\ \A j \in At(trace, "write") : i < j
              /\ (FrameKinds = <<A, A, B, A, Null>> /\ instancesPerBatch[A] > 2) =>
                    /\ Len(DrawsOf(A)) = 2
                    /\ DrawsOf(A)[1].data = <<frameLog[1].ctx, frameLog[2].ctx>>
                    /\ DrawsOf(A)[2].data = <<frameLog[4].ctx>>
                    /\ Len(DrawsOf(B)) = 1
                    /\ drawLog[1].node = A /\ drawLog[2].node = B /\ drawLog[3].node = A

C13_Witness ==
    /\ Len(frameLog) = 5
    /\ FrameKinds = <<1, 1, 2, 1, Null>>
    /\ instancesPerBatch[1] > 3
    /\ Len(drawLog) = 3
    /\ frameLog[1].ctx # frameLog[2].ctx

\* The instances of a sequence of draw calls, each with the handler that drew it.
RECURSIVE Drawn(_)
Drawn(log) ==
    IF log = <<>> THEN <<>>
    ELSE [k \in 1..Len(Head(log).data) |-> <<Head(log).node, Head(log).data[k]>>]
             \o Drawn(Tail(log))

\* The instances batch was asked for this frame, in request order.
Requested ==
    LET batches == SelectSeq(frameLog, LAMBDA r : r.op = "batch")
    IN  [k \in 1..Len(batches) |-> <<batches[k].node, batches[k].ctx>>]

\* The instances waiting in the current batch node's buffer.
Pending ==
    IF currentBatchNode = Null THEN <<>>
    ELSE [k \in 1..instanceCount[currentBatchNode] |->
             <<currentBatchNode, vertexBuffer[currentBatchNode][k]>>]

\* C14: whatever the batch requests, over several handlers and with stand-alone
\* renders in between, the instances drawn, draw call by draw call, followed by
\* those still pending, are the requests in request order: none lost, none drawn
\* twice, none drawn before an earlier one, each draw call a run of consecutive
\* requests to one handler; after a final flush trigger all of them are drawn.
C14_DrawnInRequestOrder ==
    /\ Drawn(drawLog) \o Pending = Requested
    /\ \A i \in 1..Len(drawLog) :
          /\ Len(drawLog[i].data) >= 1
          /\ Len(drawLog[i].data) <= instancesPerBatch[drawLog[i].node]
    /\ (frameLog # <<>> /\ frameLog[Len(frameLog)].op = "startStandAloneRender") =>
          /\ Pending = <<>>
          /\ Drawn(drawLog) = Requested
          /\ \A h \in Handlers : instanceCount[h] = 0

C14_Witness ==
    /\ Len(frameLog) = 5
    /\ frameLog[5].op = "startStandAloneRender"
    /\ Len(drawLog) = 3
    /\ Len(Requested) = 4
    /\ drawLog[1].node # drawLog[2].node
    /\ Len(drawLog[1].data) = 2
    /\ drawLog[1].data[1] # drawLog[1].data[2]
    /\ instancesPerBatch[drawLog[1].node] = 2


\* The calls of one method among those made.
CallsOf(method) == SelectSeq(calls, LAMBDA c : c.method = method)

\* C16: an override on the object wins over the default, and a missing override
\* falls back to the default: TilemapLayerWebGLRenderer runs
\* customRenderNodes.Submitter when there is one and defaultRenderNodes.Submitter
\* otherwise, exactly once, with (drawingContext, src); SubmitterTile.run sends its
\* batch call to customRenderNodes[batchHandler] when there is one and to
\* defaultRenderNodes[batchHandler] otherwise.
C16_OverrideWins ==
    /\ (submitArgs.op = "TilemapLayerWebGLRenderer" /\ calls # <<>>) =>
          LET custom == submitArgs.src.customRenderNodes.Submitter
              default == submitArgs.src.defaultRenderNodes.Submitter
          IN  /\ Len(calls) = 1
              /\ calls[1].kind = "Submitter"
              /\ calls[1].method = "run"
              /\ calls[1].id = (IF custom # Null THEN custom ELSE default)
              /\ calls[1].args = [drawingContext |-> submitArgs.drawingContext,
                                  gameObject |-> submitArgs.src]
    /\ (submitArgs.op = "SubmitterTile.run" /\ calls # <<>>) =>
          LET custom == submitArgs.gameObject.customRenderNodes.BatchHandler
              default == submitArgs.gameObject.defaultRenderNodes.BatchHandler
          IN  /\ Len(CallsOf("batch")) = 1
              /\ CallsOf("batch")[1].kind = "BatchHandler"
              /\ CallsOf("batch")[1].id = (IF custom # Null THEN custom ELSE default)
              /\ CallsOf("batch")[1].args.drawingContext = submitArgs.drawingContext

C16_Witness ==
    /\ submitArgs.op = "SubmitterTile.run"
    /\ submitArgs.gameObject.customRenderNodes.BatchHandler # Null
    /\ submitArgs.gameObject.customRenderNodes.BatchHandler
          # submitArgs.gameObject.defaultRenderNodes.BatchHandler
    /\ Len(CallsOf("batch")) = 1
    /\ CallsOf("batch")[1].id = submitArgs.gameObject.customRenderNodes.BatchHandler


\* C20: the end of a camera pass is a flush trigger: when Camera.run returns no
\* handler holds instances accumulated during the pass, so every instance written
\* during the pass has been drawn by a later draw call of the pass; and with a
\* custom viewport no batch stored under the cloned context is pending when the
\* clone is released.
C20_CameraPassFlushes ==
    lastOp.op = "Camera.run" =>
        /\ \A i \in At(trace, "write") :
              \E j \in At(trace, "drawElements") :
                  j > i /\ trace[j].node = trace[i].node
        /\ \A r \in At(trace, "release") :
              ~(/\ currentBatchNode # Null
                /\ instanceCount[currentBatchNode] > 0
                /\ currentBatchDrawingContext = trace[r].ctx)


\* C21: with a custom viewport Camera.run clones the given context exactly once,
\* sets the clone's scissor box to the camera's x, y, width, height, enters it
\* with use() before any drawing, gives the clone (not the original) to the
\* background fill and to the compositor, and releases it exactly once after
\* compositing; without one it clones and releases nothing and draws with the
\* context it was given. Every clone made is released when run returns.
C21_CloneUsedAndReleased ==
    lastOp.op = "Camera.run" =>
        LET given == cameraArgs.drawingContext
            camera == cameraArgs.camera
            Drawing == At(trace, "FillRect.run") \cup At(trace, "ListCompositor.run")
                          \cup At(trace, "write") \cup At(trace, "drawElements")
        IN  /\ camera.customViewport =>
                /\ Cardinality(At(trace, "getClone")) = 1
                /\ Cardinality(At(trace, "setScissorBox")) = 1
                /\ Cardinality(At(trace, "use")) = 1
                /\ Cardinality(At(trace, "release")) = 1
                /\ \A g \in At(trace, "getClone") :
                      LET clone == trace[g].ctx
                      IN  /\ trace[g].data = <<given>>
                          /\ clone # given
                          /\ \A i \in At(trace, "setScissorBox") :
                                /\ g < i
                                /\ trace[i].ctx = clone
                                /\ trace[i].data = <<camera.x, camera.y,
                                                     camera.width, camera.height>>
                          /\ \A u \in At(trace, "use") :
                                /\ trace[u].ctx = clone
                                /\ \A i \in At(trace, "setScissorBox") : i < u
                                /\ \A d \in Drawing : u < d
                          /\ \A d \in At(trace, "FillRect.run")
                                        \cup At(trace, "ListCompositor.run")
                                        \cup At(trace, "write") :
                                trace[d].ctx = clone
                          /\ \A r \in At(trace, "release") :
                                /\ trace[r].ctx = clone
                                /\ \A d \in At(trace, "ListCompositor.run")
                                              \cup At(trace, "write") : d < r
            /\ ~camera.customViewport =>
                /\ At(trace, "getClone") = {}
                /\ At(trace, "setScissorBox") = {}
                /\ At(trace, "use") = {}
                /\ At(trace, "release") = {}
                /\ \A d \in At(trace, "FillRect.run")
                              \cup At(trace, "ListCompositor.run")
                              \cup At(trace, "write") :
                      trace[d].ctx = given
            /\ \A g \in At(trace, "getClone") :
                  \E r \in At(trace, "release") : g < r /\ trace[r].ctx = trace[g].ctx

C21_Witness ==
    /\ lastOp.op = "Camera.run"
    /\ cameraArgs.camera.customViewport
    /\ cameraArgs.camera.alphaGL > 0
    /\ Len(cameraArgs.children) = 2
    /\ At(trace, "release") # {}
    /\ At(trace, "FillRect.run") # {}
    /\ Cardinality(At(trace, "write")) = 2

\* C22: Camera.run does its steps in a fixed order: the background fill, done
\* exactly when the background colour's alpha is above zero, comes before
\* compositing; the compositor is run exactly once; POST_RENDER is emitted
\* exactly once and last, after the release of the context and after
\* camera.dirty has been set to false.
C22_FixedStepOrder ==
    lastOp.op = "Camera.run" =>
        /\ Cardinality(At(trace, "FillRect.run")) =
              (IF cameraArgs.camera.alphaGL > 0 THEN 1 ELSE 0)
        /\ Cardinality(At(trace, "ListCompositor.run")) = 1
        /\ \A f \in At(trace, "FillRect.run") :
              \A l \in At(trace, "ListCompositor.run") : f < l
        /\ \A l \in At(trace, "ListCompositor.run") :
              trace[l].data = cameraArgs.children
        /\ Cardinality(At(trace, "POST_RENDER")) = 1
        /\ trace[Len(trace)].ev = "POST_RENDER"
        /\ Cardinality(At(trace, "camera.dirty")) = 1
        /\ \A p \in At(trace, "POST_RENDER") :
              /\ \A r \in At(trace, "release") : r < p
              /\ \A d \in At(trace, "camera.dirty") : d < p
        /\ cameraDirty = FALSE

C22_Witness ==
    /\ lastOp.op = "Camera.run"
    /\ cameraArgs.camera.alphaGL = 0
    /\ cameraArgs.camera.customViewport
    /\ cameraArgs.children # <<>>
    /\ At(trace, "FillRect.run") = {}
    /\ trace[Len(trace)].ev = "POST_RENDER"
    /\ cameraDirty = FALSE


\* The x, y stored for vertex slot v (0..3) of the instance just written.
StoredCorner(v) ==
    LET base == v * FloatsPerVertex
    IN  <<calls[base + 1].args.value, calls[base + 2].args.value>>

\* SubmitterTile.run passes positions, frame coordinates and tints in the order
\* TL, BL, TR, BR (the transformer's quad holding TL, BL, BR, TR).
SubmitterPassesCornersInOrder ==
    (submitArgs.op = "SubmitterTile.run" /\ calls # <<>>) =>
        LET sent == CallsOf("batch")[1].args
            quad == submitArgs.transformerNode.quad
            uv == submitArgs.texturerNode.uvSource
            TL == <<quad[1], quad[2]>>
            BL == <<quad[3], quad[4]>>
            BR == <<quad[5], quad[6]>>
            TR == <<quad[7], quad[8]>>
        IN  /\ sent.positions = TL \o BL \o TR \o BR
            /\ sent.frameCoords = <<uv.u0, uv.v0>> \o <<uv.u0, uv.v1>>
                                     \o <<uv.u1, uv.v0>> \o <<uv.u1, uv.v1>>
            /\ submitArgs.tinterNode.present =>
                  sent.tints = <<submitArgs.tinterNode.tintTopLeft,
                                 submitArgs.tinterNode.tintBottomLeft,
                                 submitArgs.tinterNode.tintTopRight,
                                 submitArgs.tinterNode.tintBottomRight>>

\* C27 as stated: the corner order TL, BL, TR, BR is kept on both sides of the
\* batch call: SubmitterTile.run passes positions, UV pairs and tints in that
\* order, and BatchHandlerPointLight.batch writes the corners it receives into
\* vertex slots 0, 1, 2, 3 in that same order.
C27_CornerOrderBothSides ==
    /\ SubmitterPassesCornersInOrder
    /\ (submitArgs.op = "BatchHandlerPointLight.batch" /\ calls # <<>>) =>
          /\ StoredCorner(0) = <<submitArgs.xTL, submitArgs.yTL>>
          /\ StoredCorner(1) = <<submitArgs.xBL, submitArgs.yBL>>
          /\ StoredCorner(2) = <<submitArgs.xTR, submitArgs.yTR>>
          /\ StoredCorner(3) = <<submitArgs.xBR, submitArgs.yBR>>

\* C27 amended: SubmitterTile.run passes positions, UV pairs and tints in the
\* order TL, BL, TR, BR; BatchHandlerPointLight.batch takes its corners in that
\* order but writes them into vertex slots 0, 1, 2, 3 as BL, TL, BR, TR, each
\* vertex being FloatsPerVertex consecutive floats starting at
\* instanceCount * floatsPerInstance.
C27_CornerOrderSubmitterOnly ==
    /\ SubmitterPassesCornersInOrder
    /\ (submitArgs.op = "BatchHandlerPointLight.batch" /\ calls # <<>>) =>
          /\ Len(calls) = floatsPerInstance
          /\ \A k \in 1..Len(calls) :
                calls[k].id = submitArgs.instanceCount * floatsPerInstance + k - 1
          /\ StoredCorner(0) = <<submitArgs.xBL, submitArgs.yBL>>
          /\ StoredCorner(1) = <<submitArgs.xTL, submitArgs.yTL>>
          /\ StoredCorner(2) = <<submitArgs.xBR, submitArgs.yBR>>
          /\ StoredCorner(3) = <<submitArgs.xTR, submitArgs.yTR>>

C27_Witness ==
    /\ submitArgs.op = "BatchHandlerPointLight.batch"
    /\ submitArgs.instanceCount = 1
    /\ Len(calls) = floatsPerInstance
    /\ calls[1].id = floatsPerInstance
    /\ StoredCorner(0) = <<21, 22>>


\* The stages whose run SubmitterTile.run has to call, in order.
StagesWithRun ==
    (IF submitArgs.texturerNode.run THEN <<"Texturer">> ELSE <<>>)
    \o (IF submitArgs.transformerNode.run THEN <<"Transformer">> ELSE <<>>)
    \o (IF submitArgs.tinterNode.present /\ submitArgs.tinterNode.run
        THEN <<"Tinter">> ELSE <<>>)

\* C28: SubmitterTile.run calls run on a stage exactly when that stage has a
\* run method, in the order texturer, transformer, tinter; it then makes
\* exactly one batch call carrying the texture, frame coordinates, quad and
\* tints read from the stage objects, with onRunBegin as the first call and
\* onRunEnd as the last.
C28_StagesRunWhenTheyHaveRun ==
    (submitArgs.op = "SubmitterTile.run" /\ calls # <<>>) =>
        LET n == Len(calls)
            stageCalls == SelectSeq(calls, LAMBDA c : c.method = "run")
            uv == submitArgs.texturerNode.uvSource
            quad == submitArgs.transformerNode.quad
        IN  /\ calls[1].method = "onRunBegin"
            /\ calls[n].method = "onRunEnd"
            /\ Len(CallsOf("onRunBegin")) = 1
            /\ Len(CallsOf("onRunEnd")) = 1
            /\ Len(CallsOf("batch")) = 1
            /\ calls[n - 1].method = "batch"
            /\ Len(stageCalls) = Len(StagesWithRun)
            /\ \A k \in 1..Len(stageCalls) :
                  /\ stageCalls[k].kind = StagesWithRun[k]
                  /\ calls[k + 1] = stageCalls[k]
            /\ calls[n - 1].args.glTexture = submitArgs.texturerNode.glTexture
            /\ calls[n - 1].args.texCoords = <<uv.u0, uv.v0, uv.u1 - uv.u0, uv.v1 - uv.v0>>
            /\ {calls[n - 1].args.positions[k] : k \in 1..8} = {quad[k] : k \in 1..8}
            /\ submitArgs.tinterNode.present =>
                  calls[n - 1].args.tintFill = submitArgs.tinterNode.tintFill

\* A plain texturer object, a transformer node and a tinter node: one stage
\* without run between two with it.
C28_Witness ==
    /\ submitArgs.op = "SubmitterTile.run"
    /\ calls # <<>>
    /\ ~submitArgs.texturerNode.run
    /\ submitArgs.transformerNode.run
    /\ submitArgs.tinterNode.present /\ ~submitArgs.tinterNode.run
    /\ Len(calls) = 5
    /\ calls[2].kind = "Transformer"

RootNode == [name |-> RootName, children |-> <<>>, parent |-> Null]

\* graph is a tree rooted at its first node, the synthetic root: every other
\* node has an earlier node as parent and is in the children list of that
\* node exactly once, in no other list, and children are in order of creation.
IsRecordedTree(graph) ==
    /\ graph[1].name = RootName
    /\ graph[1].parent = Null
    /\ \A k \in 2..Len(graph) :
          /\ graph[k].parent \in 1..(k - 1)
          /\ Cardinality({i \in 1..Len(graph[graph[k].parent].children) :
                             graph[graph[k].parent].children[i] = k}) = 1
          /\ \A p \in 1..Len(graph) :
                p # graph[k].parent =>
                    \A i \in 1..Len(graph[p].children) : graph[p].children[i] # k
    /\ \A p \in 1..Len(graph) :
          \A i \in 1..Len(graph[p].children) :
              /\ graph[p].children[i] \in (p + 1)..Len(graph)
              /\ i > 1 => graph[p].children[i - 1] < graph[p].children[i]

\* Every pushDebug and popDebug since setDebug(true) was one of a pair around
\* a run: no run in progress began before that call, and none that did has
\* returned since (its popDebug, made at the root, leaves no current node).
PairedSoFar ==
    /\ debug
    /\ \A k \in 1..Len(runStack) : ~runStack[k].stale
    /\ currentDebugNode # Null

\* C23: while debug is enabled and pushDebug/popDebug are paired around nested
\* runs, the debug graph is a tree rooted at the synthetic root in which every
\* recorded node is in the children list of its parent exactly once and in
\* invocation order; a push makes the new node, child of the node current
\* before, the current one; the matching pop makes current again the node that
\* was current before the push; currentDebugNode is never null during a run.
C23_PairedPushPopKeepTree ==
    [][/\ debugGraph' # <<>> => IsRecordedTree(debugGraph')
       /\ \A n \in DebugNames :
             (PairedSoFar /\ RunBegin(n)) =>
                 /\ Len(debugGraph') = Len(debugGraph) + 1
                 /\ currentDebugNode' = Len(debugGraph')
                 /\ debugGraph'[currentDebugNode'].name = n
                 /\ debugGraph'[currentDebugNode'].parent = currentDebugNode
                 /\ runStack'[Len(runStack')].pushed = currentDebugNode'
       /\ (PairedSoFar /\ RunEnd) =>
             /\ currentDebugNode = runStack[Len(runStack)].pushed
             /\ currentDebugNode' = debugGraph[currentDebugNode].parent
             /\ debugGraph' = debugGraph
       /\ (debug' /\ runStack' # <<>> /\ \A k \in 1..Len(runStack') : ~runStack'[k].stale) =>
             currentDebugNode' # Null
      ]_vars

\* Camera has returned to its caller level after two nested runs under it:
\* its node holds both children and is current again.
C23_Witness ==
    /\ PairedSoFar
    /\ Len(runStack) = 1
    /\ Len(debugGraph) = 4
    /\ currentDebugNode = 2
    /\ debugGraph[2].children = <<3, 4>>
    /\ debugGraph[3].name # debugGraph[4].name

\* C24 as stated: after setDebug(true), debug stays enabled until the
\* renderer's next POST_RENDER event and is disabled by it, also when
\* setDebug(true) or setDebug(false) is called again before that event;
\* disabling debug leaves the graph unchanged and pushDebug/popDebug made
\* while debug is disabled change neither the graph nor currentDebugNode.
C24_EnabledUntilPostRender ==
    [][/\ PostRender => (~debug' /\ postRenderOnce' = 0)
       /\ debug' => postRenderOnce' >= 1
       /\ ~debug' => UNCHANGED <<debugGraph, currentDebugNode>>
       /\ (debug /\ ~debug') => PostRender
      ]_vars

\* C24 amended: after setDebug(true), debug stays enabled until the renderer's
\* next POST_RENDER event or an earlier setDebug(false), whichever comes
\* first; that POST_RENDER leaves debug disabled in every case, also when
\* setDebug(true) was called again before it; disabling debug leaves the
\* graph unchanged and pushDebug/popDebug made while debug is disabled change
\* neither the graph nor currentDebugNode.
C24_EnabledUntilPostRenderOrSetDebugFalse ==
    [][/\ PostRender => (~debug' /\ postRenderOnce' = 0)
       /\ debug' => postRenderOnce' >= 1
       /\ ~debug' => UNCHANGED <<debugGraph, currentDebugNode>>
       /\ (debug /\ ~debug') => (PostRender \/ SetDebug(FALSE))
      ]_vars

\* A frame recorded and closed by POST_RENDER: debug is off, no listener is
\* left, the graph is still there.
C24_Witness ==
    /\ ~debug
    /\ postRenderOnce = 0
    /\ Len(debugGraph) >= 3
    /\ runStack = <<>>

\* C25: immediately after setDebug(true) the debug graph consists of exactly
\* one node, the synthetic root, with no parent and no children, and
\* currentDebugNode is that root, whatever graph and current node existed before.
C25_SetDebugTrueStartsFromRoot ==
    [][SetDebug(TRUE) =>
          /\ debug'
          /\ debugGraph' = <<RootNode>>
          /\ currentDebugNode' = 1
      ]_vars

\* setDebug(true) called a second time, during a run that had recorded a node:
\* that recording is gone.
C25_Witness ==
    /\ debug
    /\ postRenderOnce = 2
    /\ runStack # <<>>
    /\ runStack[1].stale
    /\ debugGraph = <<RootNode>>
    /\ currentDebugNode = 1

\* Nesting level of a recorded node: the length of its parent chain.
RECURSIVE Depth(_, _)
Depth(graph, k) == IF graph[k].parent = Null THEN 0 ELSE 1 + Depth(graph, graph[k].parent)

RECURSIVE Spaces(_)
Spaces(n) == IF n = 0 THEN "" ELSE " " \o Spaces(n - 1)

\* The lines of nodes k..Len(graph), in order of invocation.
RECURSIVE LinesFrom(_, _)
LinesFrom(graph, k) ==
    IF k > Len(graph) THEN ""
    ELSE Spaces(2 * Depth(graph, k)) \o graph[k].name \o "\n" \o LinesFrom(graph, k + 1)

\* C26: debugToString lists the recorded tree in invocation order, one node
\* name per line, each line ended by a newline and prefixed by exactly two
\* spaces per nesting level, the synthetic root being at level 0.
C26_DumpIsIndentedPreOrder ==
    (debugResult.op = "debugToString" /\ ~debugResult.threw) =>
        debugResult.output = LinesFrom(debugGraph, 1)

\* A frame with three nested runs under the root.
C26_Witness ==
    /\ debugResult.op = "debugToString"
    /\ debugResult.output = "[Render Tree Root]\n  Camera\n    custom1\n      Camera\n"

\* C30: whenever the manager's debug flag is on, every node stored in the
\* registry is in debug mode, whether it was stored before setDebug(true), or
\* added by addNode or constructed by getNode after it; and with the flag off
\* no stored node is in debug mode.
C30_StoredNodesFollowDebugFlag ==
    /\ debug => StoredIds \subseteq nodeDebug
    /\ ~debug => StoredIds \cap nodeDebug = {}

\* Both nodes were stored after the only setDebug(true): the root was current
\* and alone when the second, just added, joined the registry.
C30_Witness ==
    /\ debug
    /\ result.op = "addNode" /\ ~result.threw
    /\ result.ret.id \in nodeDebug
    /\ nodes["Camera"] # NoNode
    /\ nodes["Camera"].id \in nodeDebug
    /\ Len(debugGraph) = 2
    /\ debugGraph[2].name = "Camera"
    /\ postRenderOnce = 1


=============================================================================
